---- MODULE Spec2Model ----
(***************************************************************************)
(* ZigZag crossover detector (pocket-option): the line extraction driver   *)
(* ColorDetector.detect_lines and the crossover engine                     *)
(* CrossoverDetector.detect_crossovers with its deduplicator               *)
(* (is_new_crossover, cleanup_old_crossovers), the GUI thread of           *)
(* ZigZagDetectorApp with the DetectionWorker threads it starts, the       *)
(* TelegramAlerter with its queue and worker thread, the ConfigManager     *)
(* with the dicts it shares with DEFAULT_CONFIG, and the capture source of *)
(* WindowCapture.                                                          *)
(*                                                                         *)
(* Units.  Time is in whole seconds.  A line confidence and the configured *)
(* confidence_threshold are in hundredths (0.7 is 70).  An intersection    *)
(* angle is in whole degrees, rounded down.  The blended confidence of an  *)
(* intersection, (c1 + c2 + angle_factor) / 3, is kept in units of         *)
(* 1/BlendScale, so that it stays an integer:                              *)
(*   BlendScale * (c1 + c2 + af) / 3 = 45 * (C1 + C2) + 4500 * af.         *)
(***************************************************************************)
EXTENDS Integers, Sequences, FiniteSets, TLC

VARIABLES
    \* CrossoverDetector
    crossover_history,      \* self.crossover_history
    recent_crossovers,      \* self.recent_crossovers
    last_detection_time,    \* self.last_detection_time
    \* configuration read by the detector
    confidence_threshold,   \* config['detection']['confidence_threshold'], hundredths
    tolerance_config,       \* config['detection']['intersection_tolerance']
    \* environment
    now,                    \* time.time(), seconds
    \* what the last detect_crossovers call did
    returned,               \* its return value
    raised,                 \* TRUE iff an exception left detect_crossovers
    lastCall,               \* its arguments and what it read
    prevCall,               \* the same for the call before it
    verdicts,               \* every candidate of every pass, with its fate
    passes,                 \* number of detect_crossovers calls so far
    \* ColorDetector / configured bands
    colors,                 \* config['colors'][band]['enabled']
    captured_image,         \* per band, what OpenCV finds in the last image
    cd_last_detection_time, \* ColorDetector.last_detection_time
    detected_lines,         \* return value of the last detect_lines call
    bandLog,                \* per band, whether the last detect_lines call found it
                            \* enabled and what it did with it
    lines_raised,           \* TRUE iff an exception left detect_lines
    frames,                 \* number of detect_lines calls so far
    \* a single call of one of the pure functions
    call,                   \* the function and its arguments
    result,                 \* what it returned
    \* ZigZagDetectorApp and its DetectionWorker threads
    detection_worker,       \* self.detection_worker: index into workers, 0 for None
    workers,                \* every DetectionWorker created so far
    gui,                    \* where the GUI thread is
    \* TelegramAlerter
    alert_queue,            \* self.alert_queue: the alerts waiting, oldest first
    last_alert_time,        \* self.last_alert_time
    failed_alerts,          \* self.failed_alerts
    alerter_running,        \* self.running
    worker_thread,          \* self.worker_thread: index into alert_threads, 0 for None
    alert_threads,          \* every thread start_worker has created
    delivered,              \* the alerts _send_telegram_message has sent
    alert_calls,            \* every send_crossover_alert call, with its result
    \* ConfigManager and the module-level DEFAULT_CONFIG
    config_top,             \* self.config: section name -> the dict object it refers to
    config_heap,            \* the dict objects that DEFAULT_CONFIG and self.config share
    config_ops,             \* the ConfigManager calls so far, oldest first
    \* WindowCapture
    target_window,          \* self.target_window: a WindowInfo or None
    custom_region,          \* self.custom_region: a region dict or None
    selected,               \* the capture source the user selected last
    captured,               \* what the last capture_screen call did
    capture_calls           \* WindowCapture calls so far

detVars  == <<crossover_history, recent_crossovers, last_detection_time,
              confidence_threshold, tolerance_config, now, returned, raised,
              lastCall, prevCall, verdicts, passes>>
lineVars == <<colors, captured_image, cd_last_detection_time, detected_lines, bandLog, lines_raised, frames>>
pureVars == <<call, result>>
guiVars  == <<detection_worker, workers, gui>>
alertVars == <<alert_queue, last_alert_time, failed_alerts, alerter_running,
               worker_thread, alert_threads, delivered, alert_calls>>
cfgVars  == <<config_top, config_heap, config_ops>>
capVars  == <<target_window, custom_region, selected, captured, capture_calls>>
auxVars  == <<alertVars, cfgVars, capVars>>
vars     == <<detVars, lineVars, pureVars, guiVars, auxVars>>

-----------------------------------------------------------------------------
(* Program constants *)

DefaultConfidenceThreshold == 70
intersection_tolerance == 8
debounce_seconds == 60
retention_time == 3600
max_history == 1000
cooldown_seconds == 300
ShallowAngle == 10
min_line_confidence == 50
BlendScale == 3 * 4500

(* Bounds of the model *)
MaxPasses == 3
MaxFrames == 2
MaxErrorPasses == 2
HistoryFillPasses == 998
MaxHistoryPasses == 4
MaxPairPasses == 2
MaxFailOpenPasses == 3
MaxWorkers == 2
MaxLoops == 2
MaxRetentionPasses == 3
MaxContour == 3
MaxDetectionWorkers == 1
MaxAlerts == 3
MaxAlertThreads == 2
MaxConfigOps == 3
MaxCaptureCalls == 4
GridMax == 2

\* The marker for float('nan'): outside the range 0..90 of an angle.
NaN == 0 - 1

-----------------------------------------------------------------------------
(* Geometry: CrossoverDetector.line_segment_intersection and                *)
(* calculate_intersection_angle                                             *)

NoPoint == [hit |-> FALSE, xn |-> 0, yn |-> 0, d |-> 1]

\* Mutant: 0 < t < 1, a common endpoint does not count.
line_segment_intersection_OpenInterval(p1, p2, p3, p4) ==
    LET dx1 == p2[1] - p1[1]  dy1 == p2[2] - p1[2]
        dx2 == p4[1] - p3[1]  dy2 == p4[2] - p3[2]
        denominator == dx1 * dy2 - dy1 * dx2
        dx3 == p1[1] - p3[1]  dy3 == p1[2] - p3[2]
        n1 == dx2 * dy3 - dy2 * dx3
        n2 == dx1 * dy3 - dy1 * dx3
        s == IF denominator > 0 THEN 1 ELSE 0 - 1
        InUnit(n) == 0 < s * n /\ s * n < s * denominator
    IN  IF denominator = 0 \/ ~(InUnit(n1) /\ InUnit(n2)) THEN NoPoint
        ELSE [hit |-> TRUE,
              xn |-> p1[1] * s * denominator + s * n1 * dx1,
              yn |-> p1[2] * s * denominator + s * n1 * dy1,
              d  |-> s * denominator]

\* Mutant: no test for parallel segments; two of them meet at p3 when p3
\* lies on p1-p2.
line_segment_intersection_ParallelMeet(p1, p2, p3, p4) ==
    LET dx1 == p2[1] - p1[1]  dy1 == p2[2] - p1[2]
        dx2 == p4[1] - p3[1]  dy2 == p4[2] - p3[2]
        denominator == dx1 * dy2 - dy1 * dx2
        dx3 == p1[1] - p3[1]  dy3 == p1[2] - p3[2]
        n1 == dx2 * dy3 - dy2 * dx3
        n2 == dx1 * dy3 - dy1 * dx3
        s == IF denominator > 0 THEN 1 ELSE 0 - 1
        InUnit(n) == 0 <= s * n /\ s * n <= s * denominator
        between(a, b, c) == (a <= c /\ c <= b) \/ (b <= c /\ c <= a)
    IN  IF denominator = 0
        THEN IF /\ dx1 * dy3 - dy1 * dx3 = 0
                /\ between(p1[1], p2[1], p3[1])
                /\ between(p1[2], p2[2], p3[2])
             THEN [hit |-> TRUE, xn |-> p3[1], yn |-> p3[2], d |-> 1]
             ELSE NoPoint
        ELSE IF InUnit(n1) /\ InUnit(n2)
             THEN [hit |-> TRUE,
                   xn |-> p1[1] * s * denominator + s * n1 * dx1,
                   yn |-> p1[2] * s * denominator + s * n1 * dy1,
                   d  |-> s * denominator]
             ELSE NoPoint

\* The intersection point of segments p1-p2 and p3-p4 as the exact fractions
\* xn/d, yn/d with d > 0, or NoPoint for None.  With integer endpoints
\* abs(denominator) < 1e-10 is denominator = 0.  The source computes t1, t2
\* and the point in floating point; the model computes them exactly.
line_segment_intersection(p1, p2, p3, p4) ==
    LET x1 == p1[1]  y1 == p1[2]
        x2 == p2[1]  y2 == p2[2]
        x3 == p3[1]  y3 == p3[2]
        x4 == p4[1]  y4 == p4[2]
        dx1 == x2 - x1  dy1 == y2 - y1
        dx2 == x4 - x3  dy2 == y4 - y3
        denominator == dx1 * dy2 - dy1 * dx2
        dx3 == x1 - x3  dy3 == y1 - y3
        n1 == dx2 * dy3 - dy2 * dx3      \* t1 = n1 / denominator
        n2 == dx1 * dy3 - dy1 * dx3      \* t2 = n2 / denominator
        s == IF denominator > 0 THEN 1 ELSE 0 - 1
        InUnit(n) == 0 <= s * n /\ s * n <= s * denominator
    IN  IF denominator = 0 THEN NoPoint
        ELSE IF InUnit(n1) /\ InUnit(n2)
             THEN [hit |-> TRUE,
                   xn |-> x1 * s * denominator + s * n1 * dx1,
                   yn |-> y1 * s * denominator + s * n1 * dy1,
                   d  |-> s * denominator]
             ELSE NoPoint

\* int(x) of Python for the fraction n/d, d > 0: truncation towards zero.
IntTrunc(n, d) == IF n >= 0 THEN n \div d ELSE 0 - ((0 - n) \div d)

\* 10^4 * cos^2(k degrees), k = 1..90 (exact at 30, 45, 60 and 90).
Cos2 == << 9997, 9988, 9973, 9951, 9924, 9891, 9851, 9806, 9755, 9698,
           9636, 9568, 9494, 9415, 9330, 9240, 9145, 9045, 8940, 8830,
           8716, 8597, 8473, 8346, 8214, 8078, 7939, 7796, 7650, 7500,
           7347, 7192, 7034, 6873, 6710, 6545, 6378, 6210, 6040, 5868,
           5696, 5523, 5349, 5174, 5000, 4826, 4651, 4477, 4304, 4132,
           3960, 3790, 3622, 3455, 3290, 3127, 2966, 2808, 2653, 2500,
           2350, 2204, 2061, 1922, 1786, 1654, 1527, 1403, 1284, 1170,
           1060,  955,  855,  760,  670,  585,  506,  432,  364,  302,
            245,  194,  149,  109,   76,   49,   27,   12,    3,    0 >>

\* min(angle, 180 - angle) in whole degrees (rounded down): the acute angle
\* is at least k degrees iff cos^2 of it is at most cos^2(k).  A zero-length
\* direction vector divides 0 by 0: numpy yields nan (a warning, no
\* exception), and min(nan, 180 - nan) is nan.
calculate_intersection_angle(p1, p2, p3, p4) ==
    LET v1x == p2[1] - p1[1]  v1y == p2[2] - p1[2]
        v2x == p4[1] - p3[1]  v2y == p4[2] - p3[2]
        dot == v1x * v2x + v1y * v2y
        q1  == v1x * v1x + v1y * v1y
        q2  == v2x * v2x + v2y * v2y
        AtLeast(k) == dot * dot * 10000 <= Cos2[k] * q1 * q2
        tens == 10 * Cardinality({t \in 1..9 : AtLeast(10 * t)})
        ones == Cardinality({u \in 1..9 : tens + u <= 90 /\ AtLeast(tens + u)})
    IN  IF q1 = 0 \/ q2 = 0 THEN NaN ELSE tens + ones

\* BlendScale/3 * angle_factor, where angle_factor = min(angle / 45.0, 1.0),
\* halved when angle < 10.  With nan, min(nan, 1.0) is nan and nan < 10 is False.
AngleFactor(angle) ==
    IF angle = NaN THEN NaN
    ELSE IF angle < ShallowAngle THEN 50 * angle
    ELSE IF angle < 45 THEN 100 * angle
    ELSE 4500

\* (line1.confidence + line2.confidence + angle_factor) / 3.0 in 1/BlendScale.
BlendedConfidence(c1, c2, angle) ==
    IF angle = NaN THEN NaN ELSE 45 * (c1 + c2) + AngleFactor(angle)

-----------------------------------------------------------------------------
(* CrossoverDetector.find_line_intersections *)

\* The (i, j) of the two nested loops, in the order the loops visit them.
SegmentPairs(line1, line2) ==
    LET m == Len(line1.points) - 1
        n == Len(line2.points) - 1
    IN  IF m < 1 \/ n < 1 THEN << >>
        ELSE [k \in 1..(m * n) |-> <<((k - 1) \div n) + 1, ((k - 1) % n) + 1>>]

\* Mutant: an intersection at the origin counts as none.
Intersects_OriginIsFalsy(line1, line2, ij) ==
    LET hit == line_segment_intersection(line1.points[ij[1]], line1.points[ij[1] + 1],
                                         line2.points[ij[2]], line2.points[ij[2] + 1])
    IN  hit.hit /\ ~(hit.xn = 0 /\ hit.yn = 0)

\* if intersection: a tuple of two floats is never falsy.
Intersects(line1, line2, ij) ==
    line_segment_intersection(line1.points[ij[1]], line1.points[ij[1] + 1],
                              line2.points[ij[2]], line2.points[ij[2] + 1]).hit

\* The dict appended for an intersecting segment pair.
IntersectionData(line1, line2, ij) ==
    LET p1 == line1.points[ij[1]]  p2 == line1.points[ij[1] + 1]
        p3 == line2.points[ij[2]]  p4 == line2.points[ij[2] + 1]
        intersection == line_segment_intersection(p1, p2, p3, p4)
        angle == calculate_intersection_angle(p1, p2, p3, p4)
    IN  [point |-> <<IntTrunc(intersection.xn, intersection.d),
                     IntTrunc(intersection.yn, intersection.d)>>,
         angle |-> angle,
         confidence |-> BlendedConfidence(line1.confidence, line2.confidence, angle),
         line1_segment |-> ij[1],
         line2_segment |-> ij[2]]

find_line_intersections(line1, line2) ==
    LET hits == SelectSeq(SegmentPairs(line1, line2),
                          LAMBDA ij : Intersects(line1, line2, ij))
    IN  [k \in DOMAIN hits |-> IntersectionData(line1, line2, hits[k])]

-----------------------------------------------------------------------------
(* CrossoverDetector.is_new_crossover and cleanup_old_crossovers *)

Sq(x) == x * x

\* Mutant: distance <= tolerance.
WithinTolerance_Inclusive(a, b, tolerance) ==
    tolerance > 0 /\ Sq(a[1] - b[1]) + Sq(a[2] - b[2]) <= Sq(tolerance)

\* distance < tolerance, the distance being sqrt of an integer.
WithinTolerance(a, b, tolerance) ==
    tolerance > 0 /\ Sq(a[1] - b[1]) + Sq(a[2] - b[2]) < Sq(tolerance)

same_lines(crossover, recent) ==
    \/ crossover.line1_name = recent.line1_name /\ crossover.line2_name = recent.line2_name
    \/ crossover.line1_name = recent.line2_name /\ crossover.line2_name = recent.line1_name

\* Mutant: the line names are compared in the given order only.
IsDuplicateOf_OrderedNames(crossover, recent, tolerance) ==
    /\ WithinTolerance(crossover.intersection_point, recent.intersection_point, tolerance)
    /\ crossover.timestamp - recent.timestamp < debounce_seconds
    /\ crossover.line1_name = recent.line1_name
    /\ crossover.line2_name = recent.line2_name

IsDuplicateOf(crossover, recent, tolerance) ==
    /\ WithinTolerance(crossover.intersection_point, recent.intersection_point, tolerance)
    /\ crossover.timestamp - recent.timestamp < debounce_seconds
    /\ same_lines(crossover, recent)

\* The marker for a configured intersection_tolerance that is no number
\* (null or a string in config.json, which _merge_config takes over as it is).
BadTolerance == 0 - 2

\* Mutant: the uniqueness check fails closed.
is_new_crossover_except_Rejects(crossover) == FALSE

\* except Exception as e: ... return True  # Default to allowing crossover
is_new_crossover_except(crossover) == TRUE

\* Mutant: a dropped candidate is recorded in recent_crossovers as well.
is_new_crossover_RecordsDropped(recent_list, crossover, tolerance) ==
    IF \E k \in DOMAIN recent_list : IsDuplicateOf(crossover, recent_list[k], tolerance)
    THEN [new |-> FALSE, recent |-> Append(recent_list, crossover), failed |-> FALSE]
    ELSE [new |-> TRUE,  recent |-> Append(recent_list, crossover), failed |-> FALSE]

\* The result of is_new_crossover, the list it leaves in recent_crossovers,
\* and whether its except clause was entered.  With a tolerance that is no
\* number, distance < tolerance raises TypeError for the first entry of
\* recent_crossovers; with an empty list the loop body is not run.
is_new_crossover(recent_list, crossover, tolerance) ==
    IF tolerance = BadTolerance /\ recent_list # << >>
    THEN [new |-> is_new_crossover_except(crossover), recent |-> recent_list,
          failed |-> TRUE]
    ELSE IF \E k \in DOMAIN recent_list : IsDuplicateOf(crossover, recent_list[k], tolerance)
    THEN [new |-> FALSE, recent |-> recent_list, failed |-> FALSE]
    ELSE [new |-> TRUE,  recent |-> Append(recent_list, crossover), failed |-> FALSE]

LastN(s, n) == IF Len(s) > n THEN SubSeq(s, Len(s) - n + 1, Len(s)) ELSE s

\* Mutant: the retention test is inverted, only old entries are kept.
cleanup_old_crossovers_KeepsOld(recent_list, history, current_time) ==
    [recent  |-> SelectSeq(recent_list,
                           LAMBDA c : current_time - c.timestamp >= retention_time),
     history |-> LastN(history, max_history)]

\* Mutant: history[:max_history], the oldest entries are kept.
cleanup_old_crossovers_KeepsFirst(recent_list, history, current_time) ==
    [recent  |-> SelectSeq(recent_list,
                           LAMBDA c : current_time - c.timestamp < retention_time),
     history |-> IF Len(history) > max_history
                 THEN SubSeq(history, 1, max_history) ELSE history]

\* Mutant: an entry exactly one hour old is kept.
cleanup_old_crossovers_KeepsHourOld(recent_list, history, current_time) ==
    [recent  |-> SelectSeq(recent_list,
                           LAMBDA c : current_time - c.timestamp <= retention_time),
     history |-> LastN(history, max_history)]

cleanup_old_crossovers(recent_list, history, current_time) ==
    [recent  |-> SelectSeq(recent_list,
                           LAMBDA c : current_time - c.timestamp < retention_time),
     history |-> LastN(history, max_history)]

-----------------------------------------------------------------------------
(* CrossoverDetector.detect_crossovers *)

\* Mutant: the colour names are not compared.
line_pairs_AllPairs(lines) ==
    LET n == Len(lines)
        all == [k \in 1..(n * n) |-> <<((k - 1) \div n) + 1, ((k - 1) % n) + 1>>]
    IN  SelectSeq(all, LAMBDA ij : ij[1] < ij[2])

\* line_pairs: the index pairs i < j of lines with different colour names,
\* in the order of the two nested loops.
line_pairs(lines) ==
    LET n == Len(lines)
        all == [k \in 1..(n * n) |-> <<((k - 1) \div n) + 1, ((k - 1) % n) + 1>>]
    IN  SelectSeq(all, LAMBDA ij : ij[1] < ij[2]
                                   /\ lines[ij[1]].color_name # lines[ij[2]].color_name)

MakeCrossover(line1, line2, data, current_time) ==
    [intersection_point |-> data.point,
     line1_name |-> line1.color_name,
     line2_name |-> line2.color_name,
     line1_confidence |-> line1.confidence,
     line2_confidence |-> line2.confidence,
     timestamp |-> current_time,
     confidence |-> data.confidence,
     angle |-> data.angle]

\* Mutant: the threshold test is missing.
MeetsThreshold_NoFilter(confidence, min_confidence) == confidence # NaN

\* intersection_data['confidence'] >= min_confidence; nan >= x is False.
MeetsThreshold(confidence, min_confidence) ==
    confidence # NaN /\ confidence * 100 >= min_confidence * BlendScale

\* Mutant: the candidates of a later line pair come first.
RECURSIVE Candidates_LastPairFirst(_, _, _, _)
Candidates_LastPairFirst(lines, pairs, k, current_time) ==
    IF k > Len(pairs) THEN << >>
    ELSE LET line1 == lines[pairs[k][1]]
             line2 == lines[pairs[k][2]]
             found == find_line_intersections(line1, line2)
         IN  Candidates_LastPairFirst(lines, pairs, k + 1, current_time)
             \o [n \in DOMAIN found |-> MakeCrossover(line1, line2, found[n], current_time)]

\* Every candidate of the pass as a Crossover, in processing order.
RECURSIVE Candidates(_, _, _, _)
Candidates(lines, pairs, k, current_time) ==
    IF k > Len(pairs) THEN << >>
    ELSE LET line1 == lines[pairs[k][1]]
             line2 == lines[pairs[k][2]]
             found == find_line_intersections(line1, line2)
         IN  [n \in DOMAIN found |-> MakeCrossover(line1, line2, found[n], current_time)]
             \o Candidates(lines, pairs, k + 1, current_time)

\* Mutant: a candidate below the threshold is kept in the history.
ProcessCandidate_KeepsLowConfidence(st, crossover, min_confidence, tolerance) ==
    IF ~MeetsThreshold(crossover.confidence, min_confidence)
    THEN [st EXCEPT !.history = Append(@, crossover),
                    !.log = Append(@, [c |-> crossover, min_confidence |-> min_confidence,
                                       verdict |-> "low_confidence", failed |-> FALSE])]
    ELSE LET r == is_new_crossover(st.recent, crossover, tolerance)
         IN  IF r.new
             THEN [st EXCEPT !.recent = r.recent,
                             !.history = Append(@, crossover),
                             !.crossovers = Append(@, crossover),
                             !.log = Append(@, [c |-> crossover,
                                                min_confidence |-> min_confidence,
                                                verdict |-> "accepted",
                                                failed |-> r.failed])]
             ELSE [st EXCEPT !.recent = r.recent,
                             !.log = Append(@, [c |-> crossover,
                                                min_confidence |-> min_confidence,
                                                verdict |-> "duplicate",
                                                failed |-> r.failed])]

\* The loop body for one candidate, on the state st of the pass.
ProcessCandidate(st, crossover, min_confidence, tolerance) ==
    IF ~MeetsThreshold(crossover.confidence, min_confidence)
    THEN [st EXCEPT !.log = Append(@, [c |-> crossover, min_confidence |-> min_confidence,
                                       verdict |-> "low_confidence", failed |-> FALSE])]
    ELSE LET r == is_new_crossover(st.recent, crossover, tolerance)
         IN  IF r.new
             THEN [st EXCEPT !.recent = r.recent,
                             !.history = Append(@, crossover),
                             !.crossovers = Append(@, crossover),
                             !.log = Append(@, [c |-> crossover,
                                                min_confidence |-> min_confidence,
                                                verdict |-> "accepted",
                                                failed |-> r.failed])]
             ELSE [st EXCEPT !.recent = r.recent,
                             !.log = Append(@, [c |-> crossover,
                                                min_confidence |-> min_confidence,
                                                verdict |-> "duplicate",
                                                failed |-> r.failed])]

RECURSIVE ProcessAll(_, _, _, _, _)
ProcessAll(st, cands, k, min_confidence, tolerance) ==
    IF k > Len(cands) THEN st
    ELSE ProcessAll(ProcessCandidate(st, cands[k], min_confidence, tolerance),
                    cands, k + 1, min_confidence, tolerance)

\* The try block of detect_crossovers.  A malformed detected_lines argument
\* (an element without color_name) raises while line_pairs is built, before
\* any candidate is processed; the except clause logs it and goes on.
detect_crossovers_try(st, lines, malformed, min_confidence, tolerance, current_time) ==
    IF malformed THEN [st EXCEPT !.error = TRUE]
    ELSE LET pairs == line_pairs(lines)
         IN  ProcessAll([st EXCEPT !.tested = pairs],
                        Candidates(lines, pairs, 1, current_time), 1,
                        min_confidence, tolerance)

\* Mutant: the error is raised again.
detect_crossovers_except_Reraises(error) == error

\* except Exception as e: logging.error(...).  Every error the try block
\* raises is caught there: the value is whether the error reaches the caller.
detect_crossovers_except(error) == FALSE

\* The whole call on (recent_crossovers, crossover_history): the try block
\* (tested is the list line_pairs it went through),
\* then cleanup_old_crossovers (which takes time.time() again, clean_time)
\* and the assignment to last_detection_time.
detect_crossovers(recent_list, history, last_time, lines, malformed, min_confidence, tolerance, current_time, clean_time) ==
    LET st0 == [recent |-> recent_list, history |-> history,
                crossovers |-> << >>, log |-> << >>, error |-> FALSE,
                tested |-> << >>]
        st  == detect_crossovers_try(st0, lines, malformed, min_confidence,
                                     tolerance, current_time)
        cl  == cleanup_old_crossovers(st.recent, st.history, clean_time)
    IN  IF detect_crossovers_except(st.error)
        THEN [recent |-> st.recent, history |-> st.history, last_time |-> last_time,
              crossovers |-> << >>, log |-> st.log, error |-> st.error, raised |-> TRUE,
              tested |-> st.tested]
        ELSE [recent |-> cl.recent, history |-> cl.history, last_time |-> current_time,
              crossovers |-> st.crossovers, log |-> st.log, error |-> st.error,
              raised |-> FALSE, tested |-> st.tested]

-----------------------------------------------------------------------------
(* DetectedLine values (points, color_name, confidence) and the two bands of *)
(* DEFAULT_CONFIG                                                            *)

Line1Name == "zigzag_line1"
Line2Name == "zigzag_line2"

Line(points, color_name, confidence) ==
    [points |-> points, color_name |-> color_name, confidence |-> confidence]

-----------------------------------------------------------------------------
(* ColorDetector: create_color_mask, extract_line_points,                    *)
(* calculate_line_confidence, detect_lines.  The OpenCV calls are not        *)
(* modelled: what they find in the image for one band is an input, a record  *)
(*   cvt_fails  cv2.cvtColor / inRange raises on this image and band,        *)
(*   contour    the points of approxPolyDP on the largest contour, << >>     *)
(*              when findContours finds none,                                *)
(*   area       cv2.contourArea of that contour,                             *)
(*   density    what calculate_line_confidence yields on a line of two or    *)
(*              more points of this mask, hundredths.                        *)

min_line_length == 30
DedupDistance == 5

ZeroMask == [contour |-> << >>, area |-> 0, density |-> 0]

\* except Exception: return np.zeros(image.shape[:2]): an all-zero mask.
create_color_mask(band_image) ==
    IF band_image.cvt_fails THEN ZeroMask
    ELSE [contour |-> band_image.contour, area |-> band_image.area,
          density |-> band_image.density]

\* sorted(points, key=lambda p: p[0]): a stable sort on x.
RECURSIVE InsertByX(_, _)
InsertByX(sorted, p) ==
    IF sorted = << >> THEN <<p>>
    ELSE IF sorted[Len(sorted)][1] <= p[1] THEN Append(sorted, p)
    ELSE Append(InsertByX(SubSeq(sorted, 1, Len(sorted) - 1), p), sorted[Len(sorted)])

RECURSIVE SortByX(_)
SortByX(points) ==
    IF points = << >> THEN << >>
    ELSE InsertByX(SortByX(SubSeq(points, 1, Len(points) - 1)), points[Len(points)])

\* Mutant: a point exactly 5 px from the last point kept is kept too.
RECURSIVE RemoveDuplicatePoints_KeepsFiveApart(_, _, _)
RemoveDuplicatePoints_KeepsFiveApart(points, k, unique_points) ==
    IF k > Len(points) THEN unique_points
    ELSE LET point == points[k]
             last == unique_points[Len(unique_points)]
         IN  IF unique_points = << >>
                \/ Sq(point[1] - last[1]) + Sq(point[2] - last[2]) >= Sq(DedupDistance)
             THEN RemoveDuplicatePoints_KeepsFiveApart(points, k + 1, Append(unique_points, point))
             ELSE RemoveDuplicatePoints_KeepsFiveApart(points, k + 1, unique_points)

\* Keep a point iff it is more than 5 px from the last point kept.
RECURSIVE RemoveDuplicatePoints(_, _, _)
RemoveDuplicatePoints(points, k, unique_points) ==
    IF k > Len(points) THEN unique_points
    ELSE LET point == points[k]
             last == unique_points[Len(unique_points)]
         IN  IF unique_points = << >>
                \/ Sq(point[1] - last[1]) + Sq(point[2] - last[2]) > Sq(DedupDistance)
             THEN RemoveDuplicatePoints(points, k + 1, Append(unique_points, point))
             ELSE RemoveDuplicatePoints(points, k + 1, unique_points)

extract_line_points(mask, min_length) ==
    IF mask.contour = << >> THEN << >>
    ELSE IF mask.area < min_length THEN << >>
    ELSE RemoveDuplicatePoints(SortByX(mask.contour), 1, << >>)

\* Mutant: no test of the number of points.
calculate_line_confidence_NoGuard(points, mask) == mask.density

\* With two or more points the confidence blends the length of the line, the
\* number of points and the share of sampled pixels set in the mask; the
\* model takes it from the mask.
calculate_line_confidence(points, mask) ==
    IF Len(points) < 2 THEN 0 ELSE mask.density

\* The dataclass DetectedLine: its fields, none of which has a default value.
DetectedLineFields == {"points", "color_name", "confidence", "timestamp", "length"}

\* The keyword arguments of the call DetectedLine(...) in detect_lines.
DetectLinesKeywords == {"points", "color_name", "confidence", "timestamp"}

\* The generated __init__ raises TypeError when a field without default value
\* gets no argument (__post_init__, which sets length, runs after it).
DetectedLineRaises(keywords) == DetectedLineFields \ keywords # {}

\* config.config['colors'].items(): the bands in insertion order.
Bands == <<Line1Name, Line2Name>>

\* The loop body of detect_lines for one band, on the state st of the call.
\* Once an exception is raised the rest of the loop is not run.
detect_lines_band(st, line_name, enabled, band_image, min_length) ==
    IF st.error THEN [st EXCEPT !.log[line_name] = "unprocessed"]
    ELSE IF ~enabled THEN [st EXCEPT !.log[line_name] = "skipped"]
    ELSE LET mask == create_color_mask(band_image)
             points == extract_line_points(mask, min_length)
             confidence == calculate_line_confidence(points, mask)
         IN  IF points = << >> THEN [st EXCEPT !.log[line_name] = "empty"]
             ELSE IF DetectedLineRaises(DetectLinesKeywords)
                  THEN [st EXCEPT !.log[line_name] = "error", !.error = TRUE]
                  ELSE [st EXCEPT !.log[line_name] = "line",
                                  !.lines = Append(@, Line(points, line_name, confidence))]

RECURSIVE detect_lines_try(_, _, _, _, _)
detect_lines_try(st, k, enabled, image, min_length) ==
    IF k > Len(Bands) THEN st
    ELSE detect_lines_try(detect_lines_band(st, Bands[k], enabled[Bands[k]],
                                            image[Bands[k]], min_length),
                          k + 1, enabled, image, min_length)

\* except Exception as e: logging.error(...): whether the error reaches the caller.
detect_lines_except(error) == FALSE

\* The whole call: the list returned, the per-band log, and the new
\* last_detection_time.
detect_lines(last_time, enabled, image, min_length, current_time) ==
    LET st0 == [lines |-> << >>, error |-> FALSE,
                log |-> [b \in {Line1Name, Line2Name} |-> "none"]]
        st  == detect_lines_try(st0, 1, enabled, image, min_length)
    IN  IF detect_lines_except(st.error)
        THEN [lines |-> << >>, log |-> st.log, last_time |-> last_time,
              error |-> st.error, raised |-> TRUE]
        ELSE [lines |-> st.lines, log |-> st.log, last_time |-> current_time,
              error |-> st.error, raised |-> FALSE]

-----------------------------------------------------------------------------
(* The inputs of the model: polylines on a 13 x 13 pixel grid *)

PH   == << <<0, 6>>, <<12, 6>> >>                        \* horizontal, y = 6
PD   == << <<0, 0>>, <<12, 12>> >>                       \* crosses PH at (6,6), 45 degrees
PS   == << <<0, 5>>, <<12, 7>> >>                        \* crosses PH at (6,6), 9.46 degrees
PV   == << <<0, 12>>, <<6, 0>>, <<12, 12>> >>            \* crosses PH at (3,6) and (9,6)
PW   == << <<0, 0>>, <<2, 12>>, <<8, 12>>, <<12, 4>> >>  \* crosses PH at (1,6) and (11,6)
PR   == << <<8, 12>>, <<12, 4>> >>
PL   == << <<0, 1>>, <<12, 1>> >>                        \* horizontal, y = 1
PU   == << <<0, 11>>, <<12, 11>> >>                      \* horizontal, y = 11
PM   == << <<6, 0>>, <<6, 12>> >>                        \* vertical, crosses PL, PH, PU                       \* crosses PH at (11,6)

\* The detected_lines arguments the model passes to detect_crossovers.
Frames ==
    { << >>,
      << Line(PH, Line1Name, 100), Line(PD, Line2Name, 100) >>,
      << Line(PH, Line2Name, 40),  Line(PD, Line1Name, 100) >>,
      << Line(PH, Line1Name, 100), Line(PS, Line2Name, 100) >>,
      << Line(PH, Line1Name, 100), Line(PV, Line2Name, 100) >>,
      << Line(PH, Line1Name, 100), Line(PR, Line2Name, 100) >> }

\* The end points of the segments given to line_segment_intersection: every
\* four points of a small grid, and the two diagonals of a 10 x 10 square.
GridPoints == (0..GridMax) \X (0..GridMax)
SegmentInputs ==
    (GridPoints \X GridPoints \X GridPoints \X GridPoints)
        \cup { << <<0, 0>>, <<10, 10>>, <<0, 10>>, <<10, 0>> >> }

\* The point lists given to calculate_line_confidence: up to two grid points.
PointLists ==
    {<< >>} \cup {<<a>> : a \in GridPoints} \cup {<<a, b>> : a \in GridPoints, b \in GridPoints}

\* The simplified contours given to extract_line_points: up to MaxContour
\* points, in any order, some of them 5 px apart and some closer.
ContourPoints == {0, 3, 6} \X {0, 4, 8}
ContourLists ==
    UNION {[1..n -> ContourPoints] : n \in 1..MaxContour}

\* The polylines given to find_line_intersections.
Polylines == {PH, PL, PU, PD, PS, PV, PW, PR, PM}

\* detected_lines arguments with more than one line of a band and with
\* several crossings in one frame.
PairFrames ==
    { << Line(PL, Line1Name, 100), Line(PM, Line2Name, 100), Line(PU, Line1Name, 100) >>,
      << Line(PU, Line1Name, 100), Line(PM, Line2Name, 100), Line(PL, Line1Name, 100) >>,
      << Line(PL, Line1Name, 100), Line(PU, Line1Name, 100), Line(PM, Line2Name, 100) >>,
      << Line(PH, Line1Name, 100), Line(PR, Line1Name, 100), Line(PM, Line2Name, 100) >>,
      << Line(PH, Line1Name, 100), Line(PR, Line1Name, 100) >>,
      << Line(PH, Line1Name, 100), Line(PW, Line2Name, 100) >>,
      << Line(PW, Line2Name, 100), Line(PH, Line1Name, 100) >> }

\* The two lines crossing at (6,6).  The malformed argument of the model is
\* this list followed by an element that is no DetectedLine.
MalformedFrame == << Line(PH, Line1Name, 100), Line(PD, Line2Name, 100) >>

\* What OpenCV finds for one band of an image.
NoContour == [cvt_fails |-> FALSE, contour |-> << >>, area |-> 0, density |-> 0]
BandImages ==
    { NoContour,
      [cvt_fails |-> TRUE,  contour |-> << >>, area |-> 0, density |-> 0],
      [cvt_fails |-> FALSE, contour |-> << <<12, 6>>, <<0, 6>>, <<2, 6>> >>,
       area |-> 10, density |-> 100],
      [cvt_fails |-> FALSE, contour |-> << <<12, 6>>, <<0, 6>>, <<2, 6>> >>,
       area |-> 60, density |-> 100],
      [cvt_fails |-> FALSE, contour |-> << <<12, 12>>, <<3, 4>>, <<0, 0>> >>,
       area |-> 60, density |-> 40],
      [cvt_fails |-> FALSE, contour |-> << <<3, 3>>, <<4, 4>> >>,
       area |-> 60, density |-> 100] }

\* Seconds between two calls, and seconds a call takes up to its cleanup.
Sleeps == {20, 40}
CleanupDelays == {0}

\* Values of the confidence slider (on_confidence_changed), hundredths.
Thresholds == {70, 90}

-----------------------------------------------------------------------------
(* State machine of the crossover detector *)

NoCall == [lines |-> << >>, malformed |-> FALSE, time |-> 0,
           min_confidence |-> DefaultConfidenceThreshold,
           recent_before |-> << >>, history_before |-> << >>,
           returned |-> << >>, error |-> FALSE, tested |-> << >>]

InitDetector ==
    /\ crossover_history = << >>
    /\ recent_crossovers = << >>
    /\ last_detection_time = 0
    /\ confidence_threshold = DefaultConfidenceThreshold
    /\ now = 0
    /\ returned = << >>
    /\ raised = FALSE
    /\ lastCall = NoCall
    /\ prevCall = NoCall
    /\ verdicts = << >>
    /\ passes = 0

InitLines ==
    /\ colors = [b \in {Line1Name, Line2Name} |-> TRUE]
    /\ captured_image = [b \in {Line1Name, Line2Name} |-> NoContour]
    /\ cd_last_detection_time = 0
    /\ detected_lines = << >>
    /\ bandLog = [enabled |-> [b \in {Line1Name, Line2Name} |-> TRUE],
                  outcome |-> [b \in {Line1Name, Line2Name} |-> "none"]]
    /\ lines_raised = FALSE
    /\ frames = 0

\* No pure function has been called.  The specifications of the pure
\* functions make one call, on any of the inputs.
InitPure ==
    /\ call = [op |-> "none"]
    /\ result = [op |-> "none"]

\* ZigZagDetectorApp.__init__: self.detection_worker = None.
InitGui ==
    /\ detection_worker = 0
    /\ workers = << >>
    /\ gui = "idle"

\* TelegramAlerter.__init__.
InitAlerts ==
    /\ alert_queue = << >>
    /\ last_alert_time = 0
    /\ failed_alerts = << >>
    /\ alerter_running = FALSE
    /\ worker_thread = 0
    /\ alert_threads = << >>
    /\ delivered = << >>
    /\ alert_calls = << >>

\* The dict objects of DEFAULT_CONFIG the model follows: the 'detection'
\* section, the 'colors' section and the band dict of zigzag_line1; "fresh"
\* is the dict a caller builds and passes to set_color_config, "extra" the
\* dict set() creates for a section that does not exist.
DefaultTop == [detection |-> "detection", colors |-> "colors", extra |-> "none"]

DefaultHeap ==
    [detection |-> [confidence_threshold |-> DefaultConfidenceThreshold],
     colors    |-> [zigzag_line1 |-> "band1"],
     band1     |-> [hue_min |-> 20],
     fresh     |-> [hue_min |-> 20],
     extra     |-> [value |-> 0]]

\* ConfigManager.__init__: self.config = DEFAULT_CONFIG.copy(), a copy of the
\* top-level dict whose values are the section dicts of DEFAULT_CONFIG
\* themselves; no config.json.
InitConfigManager ==
    /\ config_top = DefaultTop
    /\ config_heap = DefaultHeap
    /\ config_ops = << >>

None == [kind |-> "None"]

\* WindowCapture.__init__: no window, no region.
InitWindowCapture ==
    /\ target_window = None
    /\ custom_region = None
    /\ selected = "none"
    /\ captured = [source |-> "none", width |-> 0, result |-> "none"]
    /\ capture_calls = 0

InitAux == InitAlerts /\ InitConfigManager /\ InitWindowCapture

\* DEFAULT_CONFIG, no config.json.
InitConfig == tolerance_config = intersection_tolerance

\* load_config has merged a config.json that may hold an
\* intersection_tolerance that is no number.
InitConfigLoaded == tolerance_config \in {intersection_tolerance, BadTolerance}

Init == InitDetector /\ InitConfig /\ InitLines /\ InitPure /\ InitGui /\ InitAux

InitLoaded == InitDetector /\ InitConfigLoaded /\ InitLines /\ InitPure /\ InitGui /\ InitAux

\* One call detect_crossovers(lines), dt seconds after the previous one.
DetectCrossoversCall(lines, malformed, dt, delay) ==
    \E r \in {detect_crossovers(recent_crossovers, crossover_history, last_detection_time,
                                lines, malformed, confidence_threshold,
                                tolerance_config, now + dt, now + dt + delay)} :
        /\ recent_crossovers' = r.recent
        /\ crossover_history' = r.history
        /\ last_detection_time' = r.last_time
        /\ returned' = r.crossovers
        /\ raised' = r.raised
        /\ now' = now + dt + delay
        /\ lastCall' = [lines |-> lines, malformed |-> malformed, time |-> now + dt,
                        min_confidence |-> confidence_threshold,
                        recent_before |-> recent_crossovers,
                        history_before |-> crossover_history,
                        returned |-> r.crossovers, error |-> r.error,
                        tested |-> r.tested]
        /\ prevCall' = lastCall
        /\ verdicts' = verdicts \o r.log
        /\ passes' = passes + 1
        /\ UNCHANGED <<confidence_threshold, tolerance_config>>

DetectCrossovers ==
    /\ passes < MaxPasses
    /\ \E lines \in Frames, dt \in Sleeps, delay \in CleanupDelays :
           DetectCrossoversCall(lines, FALSE, dt, delay)
    /\ UNCHANGED <<lineVars, pureVars, guiVars, auxVars>>

DetectCrossoversMalformed ==
    /\ passes < MaxPasses
    /\ \E dt \in {20}, delay \in CleanupDelays :
           DetectCrossoversCall(MalformedFrame, TRUE, dt, delay)
    /\ UNCHANGED <<lineVars, pureVars, guiVars, auxVars>>

\* The user moves the confidence slider between two passes.
SetConfidenceThreshold ==
    /\ passes < MaxPasses
    /\ \E t \in Thresholds \ {confidence_threshold} : confidence_threshold' = t
    /\ UNCHANGED <<crossover_history, recent_crossovers, last_detection_time, now,
                   returned, raised, lastCall, prevCall, verdicts, passes,
                   tolerance_config>>
    /\ UNCHANGED <<lineVars, pureVars, guiVars, auxVars>>

\* One call detect_lines(image) on a captured image.
DetectLines ==
    /\ frames < MaxFrames
    /\ \E img \in [{Line1Name, Line2Name} -> BandImages] :
         \E r \in {detect_lines(cd_last_detection_time, colors, img,
                                min_line_length, now + 1)} :
            /\ captured_image' = img
            /\ detected_lines' = r.lines
            /\ bandLog' = [enabled |-> colors, outcome |-> r.log]
            /\ lines_raised' = r.raised
            /\ cd_last_detection_time' = r.last_time
            /\ now' = now + 1
            /\ frames' = frames + 1
    /\ UNCHANGED <<colors, crossover_history, recent_crossovers, last_detection_time,
                   confidence_threshold, tolerance_config, returned, raised,
                   lastCall, prevCall, verdicts, passes>>
    /\ UNCHANGED <<pureVars, guiVars, auxVars>>

\* ColorConfigWidget.on_enabled_changed: the user ticks or unticks a band.
ToggleBand ==
    /\ frames < MaxFrames
    /\ \E b \in {Line1Name, Line2Name} : colors' = [colors EXCEPT ![b] = ~@]
    /\ UNCHANGED <<captured_image, cd_last_detection_time, detected_lines, bandLog,
                   lines_raised, frames>>
    /\ UNCHANGED <<detVars, pureVars, guiVars, auxVars>>

\* detect_crossovers on a small set of arguments, for the specification that
\* runs both detectors: a call may come more than the retention time after
\* the previous one.
DetectCrossoversSmall ==
    /\ passes < MaxErrorPasses
    /\ \E lines \in {<< >>, MalformedFrame}, dt \in {20, retention_time} :
           DetectCrossoversCall(lines, FALSE, dt, 0)
    /\ UNCHANGED <<lineVars, pureVars, guiVars, auxVars>>

DetectCrossoversSmallMalformed ==
    /\ passes < MaxErrorPasses
    /\ \E dt \in {20, retention_time} : DetectCrossoversCall(MalformedFrame, TRUE, dt, 0)
    /\ UNCHANGED <<lineVars, pureVars, guiVars, auxVars>>

\* The first HistoryFillPasses calls of the history specification: the same
\* crossing, seen again each time the debounce window has just elapsed.
HistoryFill ==
    /\ passes < HistoryFillPasses
    /\ DetectCrossoversCall(MalformedFrame, FALSE, debounce_seconds, 0)
    /\ UNCHANGED <<lineVars, pureVars, guiVars, auxVars>>

\* The calls after them: one or two crossings, inside the window or after it.
HistoryPass ==
    /\ passes >= HistoryFillPasses
    /\ passes < HistoryFillPasses + MaxHistoryPasses
    /\ \E lines \in {MalformedFrame,
                      << Line(PH, Line1Name, 100), Line(PW, Line2Name, 100) >>},
          dt \in {20, debounce_seconds} :
           DetectCrossoversCall(lines, FALSE, dt, 0)
    /\ UNCHANGED <<lineVars, pureVars, guiVars, auxVars>>

\* A call on a list with several lines of a band or several crossings.
DetectCrossoversPairs ==
    /\ passes < MaxPairPasses
    /\ \E lines \in PairFrames, dt \in {20, debounce_seconds} :
           DetectCrossoversCall(lines, FALSE, dt, 0)
    /\ UNCHANGED <<lineVars, pureVars, guiVars, auxVars>>

\* One call line_segment_intersection(p1, p2, p3, p4), and
\* find_line_intersections on the two lines that consist of these segments.
SegmentIntersection ==
    /\ call.op = "none"
    /\ \E q \in SegmentInputs :
          /\ call' = [op |-> "segments", p1 |-> q[1], p2 |-> q[2], p3 |-> q[3], p4 |-> q[4]]
          /\ result' = [op |-> "segments",
                        point |-> line_segment_intersection(q[1], q[2], q[3], q[4]),
                        candidates |->
                            find_line_intersections(Line(<<q[1], q[2]>>, Line1Name, 100),
                                                    Line(<<q[3], q[4]>>, Line2Name, 100))]
    /\ UNCHANGED <<detVars, lineVars, guiVars, auxVars>>

\* One call find_line_intersections(line1, line2) on two polylines.
PolylineIntersections ==
    /\ call.op = "none"
    /\ \E pts1 \in Polylines, pts2 \in Polylines :
          /\ call' = [op |-> "lines", line1 |-> Line(pts1, Line1Name, 100),
                      line2 |-> Line(pts2, Line2Name, 100)]
          /\ result' = [op |-> "lines",
                        candidates |->
                            find_line_intersections(Line(pts1, Line1Name, 100),
                                                    Line(pts2, Line2Name, 100))]
    /\ UNCHANGED <<detVars, lineVars, guiVars, auxVars>>

\* One call calculate_intersection_angle(p1, p2, p3, p4), and what the loop
\* bodies of find_line_intersections and detect_crossovers make of the angle
\* for two lines of confidence 1.0 under the default threshold.
IntersectionAngle ==
    /\ call.op = "none"
    /\ \E q \in SegmentInputs :
          LET angle == calculate_intersection_angle(q[1], q[2], q[3], q[4])
              confidence == BlendedConfidence(100, 100, angle)
          IN  /\ call' = [op |-> "angle", p1 |-> q[1], p2 |-> q[2], p3 |-> q[3], p4 |-> q[4]]
              /\ result' = [op |-> "angle", angle |-> angle,
                            confidence |-> confidence,
                            passes_threshold |->
                                MeetsThreshold(confidence, DefaultConfidenceThreshold)]
    /\ UNCHANGED <<detVars, lineVars, guiVars, auxVars>>

\* A call of the detector whose configuration was loaded from config.json.
DetectCrossoversLoaded ==
    /\ passes < MaxFailOpenPasses
    /\ \E lines \in {<< >>, MalformedFrame,
                      << Line(PH, Line1Name, 100), Line(PV, Line2Name, 100) >>,
                      << Line(PH, Line1Name, 100), Line(PR, Line2Name, 100) >>},
          dt \in {20, debounce_seconds} :
           DetectCrossoversCall(lines, FALSE, dt, 0)
    /\ UNCHANGED <<lineVars, pureVars, guiVars, auxVars>>

\* A call that may come half an hour or an hour after the previous one, on
\* no line, one crossing, two crossings, or a malformed argument.
DetectCrossoversRetention ==
    /\ passes < MaxRetentionPasses
    /\ \E dt \in {20, retention_time \div 2, retention_time} :
          \/ \E lines \in {<< >>, MalformedFrame,
                            << Line(PH, Line1Name, 100), Line(PW, Line2Name, 100) >>} :
                 DetectCrossoversCall(lines, FALSE, dt, 0)
          \/ DetectCrossoversCall(MalformedFrame, TRUE, dt, 0)
    /\ UNCHANGED <<lineVars, pureVars, guiVars, auxVars>>

-----------------------------------------------------------------------------
(* ZigZagDetectorApp (GUI thread) and DetectionWorker (QThread)              *)
(* A worker is [running, paused, loop_count, thread, stopped_at,              *)
(* observed_paused]: the two flags of the object, the counter of run(), and  *)
(* where its thread is: "started" (start() was called, run() has not begun), *)
(* "loop" (at while self.running), "iter" (at if self.paused), "pass" (in    *)
(* the rest of the iteration: capture, detect_lines, detect_crossovers,      *)
(* alerts, sleep) or "finished".  stopped_at is where the thread was when    *)
(* stop() was last called on the worker ("never" before that);               *)
(* observed_paused tells that the loop has read paused = True and resume()   *)
(* has not been called since.                                                *)

\* Mutant: the running flag of the worker instead of QThread.isRunning().
isRunning_Flag(worker) == worker.running

\* QThread.isRunning(): from start() until run() has returned.
isRunning(worker) == worker.thread \in {"started", "loop", "iter", "pass"}

\* validate_setup: a valid capture region and at least two enabled bands.
validate_setup(valid_region) ==
    valid_region /\ Cardinality({b \in DOMAIN colors : colors[b]}) >= 2

\* start_detection: a new DetectionWorker is created and started.
start_detection(valid_region) ==
    IF validate_setup(valid_region)
    THEN /\ workers' = Append(workers, [running |-> FALSE, paused |-> FALSE,
                                        loop_count |-> 0, thread |-> "started",
                                        stopped_at |-> "never",
                                        observed_paused |-> FALSE])
         /\ detection_worker' = Len(workers) + 1
         /\ gui' = gui
    ELSE UNCHANGED <<workers, detection_worker, gui>>

\* DetectionWorker.stop as far as self.running = False; the GUI thread is
\* then inside self.wait(5000).
stop_detection ==
    IF detection_worker # 0 /\ isRunning(workers[detection_worker])
    THEN /\ workers' = [workers EXCEPT
                            ![detection_worker].running = FALSE,
                            ![detection_worker].stopped_at = workers[detection_worker].thread]
         /\ gui' = "stopping"
         /\ UNCHANGED detection_worker
    ELSE UNCHANGED <<workers, detection_worker, gui>>

\* The detection button is clicked.
ToggleDetection ==
    /\ gui = "idle"
    /\ \E valid_region \in BOOLEAN :
          IF detection_worker = 0 \/ ~isRunning(workers[detection_worker])
          THEN Len(workers) < MaxWorkers /\ start_detection(valid_region)
          ELSE stop_detection
    /\ UNCHANGED <<detVars, lineVars, pureVars, auxVars>>

\* self.wait(5000) returns: the thread has finished, or five seconds have
\* passed (one iteration can take longer: it sleeps 1000 / fps ms, fps >= 0.1).
WaitReturns ==
    /\ gui \in {"stopping", "closing"}
    /\ gui' = IF gui = "stopping" THEN "idle" ELSE "closed"
    /\ UNCHANGED <<workers, detection_worker>>
    /\ UNCHANGED <<detVars, lineVars, pureVars, auxVars>>

\* pause_detection: the pause button is clicked.
PauseDetection ==
    /\ gui = "idle"
    /\ detection_worker # 0
    /\ isRunning(workers[detection_worker])
    /\ workers' = IF workers[detection_worker].paused
                  THEN [workers EXCEPT ![detection_worker].paused = FALSE,
                                       ![detection_worker].observed_paused = FALSE]
                  ELSE [workers EXCEPT ![detection_worker].paused = TRUE]
    /\ UNCHANGED <<detection_worker, gui>>
    /\ UNCHANGED <<detVars, lineVars, pureVars, auxVars>>

\* closeEvent: the window is closed.
CloseEvent ==
    /\ gui = "idle"
    /\ IF detection_worker # 0 /\ isRunning(workers[detection_worker])
       THEN /\ workers' = [workers EXCEPT
                               ![detection_worker].running = FALSE,
                               ![detection_worker].stopped_at = workers[detection_worker].thread]
            /\ gui' = "closing"
       ELSE /\ gui' = "closed"
            /\ UNCHANGED workers
    /\ UNCHANGED detection_worker
    /\ UNCHANGED <<detVars, lineVars, pureVars, auxVars>>

\* DetectionWorker.run begins: self.running = True.
WorkerRunBegins ==
    /\ \E w \in DOMAIN workers :
          /\ workers[w].thread = "started"
          /\ workers' = [workers EXCEPT ![w].running = TRUE, ![w].thread = "loop"]
    /\ UNCHANGED <<detection_worker, gui>>
    /\ UNCHANGED <<detVars, lineVars, pureVars, auxVars>>

\* while self.running: the loop ends, or an iteration begins.
WorkerLoopHead ==
    /\ \E w \in DOMAIN workers :
          /\ workers[w].thread = "loop"
          /\ workers[w].running => workers[w].loop_count < MaxLoops
          /\ workers' = IF workers[w].running
                        THEN [workers EXCEPT ![w].thread = "iter"]
                        ELSE [workers EXCEPT ![w].thread = "finished"]
    /\ UNCHANGED <<detection_worker, gui>>
    /\ UNCHANGED <<detVars, lineVars, pureVars, auxVars>>

\* Mutant: the loop does not look at the paused flag.
paused_check_Ignored(worker) == FALSE

\* if self.paused:
paused_check(worker) == worker.paused

\* if self.paused: msleep(100); continue.  Otherwise loop_count += 1 and the
\* pass begins.
WorkerPausedCheck ==
    /\ \E w \in DOMAIN workers :
          /\ workers[w].thread = "iter"
          /\ workers' = IF paused_check(workers[w])
                        THEN [workers EXCEPT ![w].thread = "loop",
                                             ![w].observed_paused = TRUE]
                        ELSE [workers EXCEPT ![w].thread = "pass",
                                             ![w].loop_count = @ + 1]
    /\ UNCHANGED <<detection_worker, gui>>
    /\ UNCHANGED <<detVars, lineVars, pureVars, auxVars>>

\* The iteration is over without a detection: no image was captured, or an
\* exception ended it.
WorkerPassEnds ==
    /\ \E w \in DOMAIN workers :
          /\ workers[w].thread = "pass"
          /\ workers' = [workers EXCEPT ![w].thread = "loop"]
    /\ UNCHANGED <<detection_worker, gui>>
    /\ UNCHANGED <<detVars, lineVars, pureVars, auxVars>>

\* The iteration runs detect_crossovers on the lines of the captured image
\* (here the two lines that cross at (6,6)), and is over.
WorkerDetects ==
    /\ passes < MaxLoops
    /\ \E w \in DOMAIN workers :
          /\ workers[w].thread = "pass"
          /\ workers' = [workers EXCEPT ![w].thread = "loop"]
    /\ DetectCrossoversCall(MalformedFrame, FALSE, 20, 0)
    /\ UNCHANGED <<detection_worker, gui>>
    /\ UNCHANGED <<lineVars, pureVars, auxVars>>

\* One call calculate_line_confidence(points, mask).
LineConfidence ==
    /\ call.op = "none"
    /\ \E points \in PointLists, band_image \in BandImages :
          /\ call' = [op |-> "confidence", points |-> points,
                      mask |-> create_color_mask(band_image)]
          /\ result' = [op |-> "confidence",
                        confidence |-> calculate_line_confidence(
                                           points, create_color_mask(band_image))]
    /\ UNCHANGED <<detVars, lineVars, guiVars, auxVars>>

\* extract_line_points(mask) and calculate_line_confidence on its result, as
\* detect_lines calls them for one band.
ExtractAndScore ==
    /\ call.op = "none"
    /\ \E band_image \in BandImages :
          LET mask == create_color_mask(band_image)
              points == extract_line_points(mask, min_line_length)
          IN  /\ call' = [op |-> "extract", mask |-> mask]
              /\ result' = [op |-> "extract", points |-> points,
                            confidence |-> calculate_line_confidence(points, mask)]
    /\ UNCHANGED <<detVars, lineVars, guiVars, auxVars>>

Next == DetectCrossovers \/ DetectCrossoversMalformed \/ SetConfidenceThreshold

\* The crossover detector alone.
Spec == Init /\ [][Next]_vars

NextLines == DetectLines \/ ToggleBand

\* The colour detector alone.
SpecLines == Init /\ [][NextLines]_vars

NextErrors == DetectLines \/ DetectCrossoversSmall \/ DetectCrossoversSmallMalformed

\* Both detectors, as the worker loop calls them.
SpecErrors == Init /\ [][NextErrors]_vars

NextPairs == DetectCrossoversPairs

\* The crossover detector on lists of three lines and polylines.
SpecPairs == Init /\ [][NextPairs]_vars

NextGeometry == SegmentIntersection \/ PolylineIntersections

\* The intersection functions, one call at a time.
SpecGeometry == Init /\ [][NextGeometry]_vars

NextAngle == IntersectionAngle

\* The angle computation, one call at a time.
SpecAngle == Init /\ [][NextAngle]_vars

NextFailOpen == DetectCrossoversLoaded

\* The crossover detector with a configuration loaded from a file.
SpecFailOpen == InitLoaded /\ [][NextFailOpen]_vars

NextWorker ==
    \/ ToggleDetection \/ WaitReturns \/ PauseDetection \/ CloseEvent
    \/ WorkerRunBegins \/ WorkerLoopHead \/ WorkerPausedCheck
    \/ WorkerPassEnds
    \/ ToggleBand

\* The GUI thread and the worker threads it starts.
SpecWorker == Init /\ [][NextWorker]_vars

\* The detection button, as long as fewer than MaxDetectionWorkers workers
\* have been started or one is running.
DetectionButton ==
    /\ (detection_worker = 0 \/ ~isRunning(workers[detection_worker]))
           => Len(workers) < MaxDetectionWorkers
    /\ ToggleDetection

-----------------------------------------------------------------------------
(* TelegramAlerter: send_crossover_alert is called by the detection thread,  *)
(* stop_worker by the GUI thread, _worker_loop runs in a thread of its own.  *)
(* An alert is the number of the send_crossover_alert call that queued it.   *)
(* A thread is [pos, item]: "started" (start() was called, _worker_loop has  *)
(* not begun), "loop" (at while self.running), "get" (in alert_queue.get),   *)
(* "sending" (in _send_telegram_message, with the alert item) or "finished". *)

\* Everything of the crossover detector but the clock.
detectorState ==
    <<crossover_history, recent_crossovers, last_detection_time, confidence_threshold,
      tolerance_config, returned, raised, lastCall, prevCall, verdicts, passes>>

\* Thread.is_alive(): from start() until the target has returned.
is_alive(thread) == thread.pos # "finished"

\* start_worker on the given state of the alerter: a new thread unless one
\* is alive.
start_worker(running, thread_index, threads) ==
    IF thread_index = 0 \/ ~is_alive(threads[thread_index])
    THEN [running |-> TRUE, worker_thread |-> Len(threads) + 1,
          alert_threads |-> Append(threads, [pos |-> "started", item |-> 0])]
    ELSE [running |-> running, worker_thread |-> thread_index, alert_threads |-> threads]

\* The time the cooldown is counted from: self.last_alert_time, which the
\* worker thread sets when a message has been sent.
cooldown_reference(last_sent, calls) == last_sent

\* send_crossover_alert, dt seconds after the last event (telegram_enabled
\* is True): the cooldown test, put, and start_worker if not running.
SendCrossoverAlert ==
    /\ Len(alert_calls) < MaxAlerts
    /\ \E dt \in {0, 1, cooldown_seconds} :
          /\ now' = now + dt
          /\ IF (now + dt) - cooldown_reference(last_alert_time, alert_calls) < cooldown_seconds
             THEN /\ alert_calls' = Append(alert_calls, [time |-> now + dt, result |-> FALSE,
                                                      last_sent |-> last_alert_time])
                  /\ UNCHANGED <<alert_queue, alerter_running, worker_thread, alert_threads>>
             ELSE /\ alert_calls' = Append(alert_calls, [time |-> now + dt, result |-> TRUE,
                                                      last_sent |-> last_alert_time])
                  /\ alert_queue' = Append(alert_queue, Len(alert_calls) + 1)
                  /\ IF ~alerter_running
                     THEN \E r \in {start_worker(alerter_running, worker_thread, alert_threads)} :
                             /\ Len(r.alert_threads) <= MaxAlertThreads
                             /\ alerter_running' = r.running
                             /\ worker_thread' = r.worker_thread
                             /\ alert_threads' = r.alert_threads
                     ELSE UNCHANGED <<alerter_running, worker_thread, alert_threads>>
    /\ UNCHANGED <<last_alert_time, failed_alerts, delivered>>
    /\ UNCHANGED <<detectorState, lineVars, pureVars, guiVars, cfgVars, capVars>>

\* stop_worker: self.running = False; the join that follows changes nothing.
StopWorker ==
    /\ alerter_running
    /\ alerter_running' = FALSE
    /\ UNCHANGED <<alert_queue, last_alert_time, failed_alerts, worker_thread,
                   alert_threads, delivered, alert_calls>>
    /\ UNCHANGED <<detVars, lineVars, pureVars, guiVars, cfgVars, capVars>>

\* _worker_loop begins in the new thread.
AlertThreadBegins ==
    /\ \E t \in DOMAIN alert_threads :
          /\ alert_threads[t].pos = "started"
          /\ alert_threads' = [alert_threads EXCEPT ![t].pos = "loop"]
    /\ UNCHANGED <<alert_queue, last_alert_time, failed_alerts, alerter_running,
                   worker_thread, delivered, alert_calls>>
    /\ UNCHANGED <<detVars, lineVars, pureVars, guiVars, cfgVars, capVars>>

\* while self.running.
AlertLoopHead ==
    /\ \E t \in DOMAIN alert_threads :
          /\ alert_threads[t].pos = "loop"
          /\ alert_threads' = [alert_threads EXCEPT
                                  ![t].pos = IF alerter_running THEN "get" ELSE "finished"]
    /\ UNCHANGED <<alert_queue, last_alert_time, failed_alerts, alerter_running,
                   worker_thread, delivered, alert_calls>>
    /\ UNCHANGED <<detVars, lineVars, pureVars, guiVars, cfgVars, capVars>>

\* alert_queue.get(timeout=1): the oldest alert, or queue.Empty after a
\* second and continue.
AlertGet ==
    /\ \E t \in DOMAIN alert_threads :
          /\ alert_threads[t].pos = "get"
          /\ IF alert_queue # << >>
             THEN /\ alert_threads' = [alert_threads EXCEPT ![t].pos = "sending",
                                                             ![t].item = Head(alert_queue)]
                  /\ alert_queue' = Tail(alert_queue)
             ELSE /\ alert_threads' = [alert_threads EXCEPT ![t].pos = "loop"]
                  /\ UNCHANGED alert_queue
    /\ UNCHANGED <<last_alert_time, failed_alerts, alerter_running,
                   worker_thread, delivered, alert_calls>>
    /\ UNCHANGED <<detVars, lineVars, pureVars, guiVars, cfgVars, capVars>>

\* _send_telegram_message returns, a second later: True, and the time is
\* recorded, or False, and the alert is recorded as failed.
AlertSent ==
    /\ \E t \in DOMAIN alert_threads, success \in BOOLEAN :
          /\ alert_threads[t].pos = "sending"
          /\ now' = now + 1
          /\ IF success
             THEN /\ last_alert_time' = now + 1
                  /\ delivered' = Append(delivered, alert_threads[t].item)
                  /\ UNCHANGED failed_alerts
             ELSE /\ failed_alerts' = Append(failed_alerts, alert_threads[t].item)
                  /\ UNCHANGED <<last_alert_time, delivered>>
          /\ alert_threads' = [alert_threads EXCEPT ![t].pos = "loop", ![t].item = 0]
    /\ UNCHANGED <<alert_queue, alerter_running, worker_thread, alert_calls>>
    /\ UNCHANGED <<detectorState, lineVars, pureVars, guiVars, cfgVars, capVars>>

\* A step of an alert worker thread.
AlertThreadStep == AlertThreadBegins \/ AlertLoopHead \/ AlertGet \/ AlertSent

NextAlerts ==
    \/ SendCrossoverAlert \/ StopWorker
    \/ AlertThreadBegins \/ AlertLoopHead \/ AlertGet \/ AlertSent

\* The alerter with its callers and its worker threads.  A thread that can
\* take a step does so in the end; nothing is assumed of the callers.
SpecAlerts == Init /\ [][NextAlerts]_vars /\ WF_vars(AlertThreadStep)

-----------------------------------------------------------------------------
(* ConfigManager.  A dict is an object: config_top and DEFAULT_CONFIG hold   *)
(* references to the section dicts, config_heap holds what is in them.       *)

\* dict.copy() of the top-level dict: the same references.
shallow_copy(top) == top

\* What the configuration says: the values reached through self.config.
ConfigValues(top, heap) ==
    [confidence_threshold |-> heap[top.detection].confidence_threshold,
     hue_min |-> heap[heap[top.colors].zigzag_line1].hue_min,
     extra |-> IF top.extra = "none" THEN "absent" ELSE "present"]

\* set('detection', 'confidence_threshold', value).
ConfigSet ==
    /\ Len(config_ops) < MaxConfigOps
    /\ \E value \in Thresholds :
          config_heap' = [config_heap EXCEPT ![config_top.detection].confidence_threshold = value]
    /\ config_ops' = Append(config_ops, "set")
    /\ UNCHANGED config_top
    /\ UNCHANGED <<detVars, lineVars, pureVars, guiVars, alertVars, capVars>>

\* set('extra', 'value', 1) for a section that may not exist:
\* self.config[section] = {} in the top-level dict, then the assignment.
ConfigSetNewSection ==
    /\ Len(config_ops) < MaxConfigOps
    /\ config_top' = [config_top EXCEPT !.extra = "extra"]
    /\ config_heap' = [config_heap EXCEPT !.extra.value = 1]
    /\ config_ops' = Append(config_ops, "set_new")
    /\ UNCHANGED <<detVars, lineVars, pureVars, guiVars, alertVars, capVars>>

\* ColorConfigWidget.on_slider_changed: the dict get_color_config returns is
\* edited in place and handed back to set_color_config.
ConfigEditColor ==
    /\ Len(config_ops) < MaxConfigOps
    /\ \E value \in {20, 25} :
          LET color_config == config_heap[config_top.colors].zigzag_line1
          IN  config_heap' = [config_heap EXCEPT
                                 ![color_config].hue_min = value,
                                 ![config_top.colors].zigzag_line1 = color_config]
    /\ config_ops' = Append(config_ops, "edit_color")
    /\ UNCHANGED config_top
    /\ UNCHANGED <<detVars, lineVars, pureVars, guiVars, alertVars, capVars>>

\* set_color_config('zigzag_line1', d) with a dict d the caller has built.
ConfigSetColor ==
    /\ Len(config_ops) < MaxConfigOps
    /\ \E value \in {20, 25} :
          config_heap' = [config_heap EXCEPT
                             !.fresh.hue_min = value,
                             ![config_top.colors].zigzag_line1 = "fresh"]
    /\ config_ops' = Append(config_ops, "set_color")
    /\ UNCHANGED config_top
    /\ UNCHANGED <<detVars, lineVars, pureVars, guiVars, alertVars, capVars>>

\* load_config with a config.json that holds a confidence_threshold: for a
\* key whose value is a dict on both sides _merge_config descends into the
\* dict of self.config and assigns there.
ConfigMerge ==
    /\ Len(config_ops) < MaxConfigOps
    /\ \E value \in Thresholds :
          config_heap' = [config_heap EXCEPT ![config_top.detection].confidence_threshold = value]
    /\ config_ops' = Append(config_ops, "merge")
    /\ UNCHANGED config_top
    /\ UNCHANGED <<detVars, lineVars, pureVars, guiVars, alertVars, capVars>>

\* reset_to_defaults: self.config = DEFAULT_CONFIG.copy().
ConfigReset ==
    /\ Len(config_ops) < MaxConfigOps
    /\ config_top' = shallow_copy(DefaultTop)
    /\ config_ops' = Append(config_ops, "reset")
    /\ UNCHANGED config_heap
    /\ UNCHANGED <<detVars, lineVars, pureVars, guiVars, alertVars, capVars>>

NextConfig ==
    \/ ConfigSet \/ ConfigSetNewSection \/ ConfigEditColor \/ ConfigSetColor
    \/ ConfigMerge \/ ConfigReset

\* The configuration manager and its callers.
SpecConfig == Init /\ [][NextConfig]_vars

-----------------------------------------------------------------------------
(* WindowCapture: the window or the screen region that is captured.          *)

\* The windows find_windows can return, best first; each is wider and
\* higher than 200 pixels when it is found.
WindowInfos == {[kind |-> "window", hwnd |-> h] : h \in {1, 2}}
FoundWindows == {<< >>, <<[kind |-> "window", hwnd |-> 1]>>,
                 <<[kind |-> "window", hwnd |-> 2], [kind |-> "window", hwnd |-> 1]>>}

\* The region dicts the region dialog can hand over.
Regions == {[kind |-> "region", width |-> w, height |-> h] : w \in {0, 10}, h \in {0, 10}}

\* What GetWindowRect gives for the target window when a capture begins: it
\* raises (the window is gone), or the rectangle the window has now.
WindowRects == {[kind |-> "gone"]} \cup
               {[kind |-> "rect", width |-> w, height |-> 10] : w \in {0, 10}}

\* auto_detect_window: the first window found becomes the target window;
\* custom_region is not touched.
AutoDetectWindow ==
    /\ capture_calls < MaxCaptureCalls
    /\ capture_calls' = capture_calls + 1
    /\ \E windows \in FoundWindows :
          IF windows # << >>
          THEN /\ target_window' = windows[1]
               /\ selected' = "window"
          ELSE UNCHANGED <<target_window, selected>>
    /\ UNCHANGED <<custom_region, captured>>
    /\ UNCHANGED <<detVars, lineVars, pureVars, guiVars, alertVars, cfgVars>>

\* set_target_window(window_info).
SetTargetWindow ==
    /\ capture_calls < MaxCaptureCalls
    /\ capture_calls' = capture_calls + 1
    /\ \E window_info \in WindowInfos : target_window' = window_info
    /\ custom_region' = None
    /\ selected' = "window"
    /\ UNCHANGED captured
    /\ UNCHANGED <<detVars, lineVars, pureVars, guiVars, alertVars, cfgVars>>

\* set_custom_region(region).
SetCustomRegion ==
    /\ capture_calls < MaxCaptureCalls
    /\ capture_calls' = capture_calls + 1
    /\ \E region \in Regions : custom_region' = region
    /\ target_window' = None
    /\ selected' = "region"
    /\ UNCHANGED captured
    /\ UNCHANGED <<detVars, lineVars, pureVars, guiVars, alertVars, cfgVars>>

\* capture_screen up to the grab: the region that is captured and whether an
\* image or None comes back.  custom_region is looked at first.
capture_screen(window, region, rect) ==
    LET source == IF region # None THEN "region"
                  ELSE IF window # None THEN "window" ELSE "none"
        area   == IF source = "region" THEN region ELSE rect
    IN  [source |-> source,
         width  |-> IF source = "none" \/ area.kind = "gone" THEN 0 ELSE area.width,
         result |-> IF source = "none" THEN "None"
                    ELSE IF area.kind = "gone" THEN "None"
                    ELSE IF area.width <= 0 \/ area.height <= 0 THEN "None"
                    ELSE "image"]

CaptureScreen ==
    /\ capture_calls < MaxCaptureCalls
    /\ capture_calls' = capture_calls + 1
    /\ \E rect \in WindowRects :
          captured' = capture_screen(target_window, custom_region, rect)
    /\ UNCHANGED <<target_window, custom_region, selected>>
    /\ UNCHANGED <<detVars, lineVars, pureVars, guiVars, alertVars, cfgVars>>

NextCapture ==
    \/ AutoDetectWindow \/ SetTargetWindow \/ SetCustomRegion \/ CaptureScreen

\* The capture source and the captures.
SpecCapture == Init /\ [][NextCapture]_vars

NextDetection ==
    \/ DetectionButton \/ WaitReturns \/ PauseDetection
    \/ WorkerRunBegins \/ WorkerLoopHead \/ WorkerPausedCheck
    \/ WorkerPassEnds \/ WorkerDetects

\* A step of a worker thread.
WorkerStep ==
    WorkerRunBegins \/ WorkerLoopHead \/ WorkerPausedCheck \/ WorkerPassEnds \/ WorkerDetects

\* The detection button, the pause button and the worker threads with the
\* detector they call.  A thread that can take a step does so in the end;
\* nothing is assumed of the user.
SpecDetection == Init /\ [][NextDetection]_vars /\ WF_vars(WorkerStep)

\* One call extract_line_points(mask) on a mask whose largest contour
\* simplifies to the given points.
ExtractPoints ==
    /\ call.op = "none"
    /\ \E contour \in ContourLists, area \in {min_line_length - 1, min_line_length} :
          LET mask == [contour |-> contour, area |-> area, density |-> 100]
          IN  /\ call' = [op |-> "points", mask |-> mask]
              /\ result' = [op |-> "points",
                            points |-> extract_line_points(mask, min_line_length)]
    /\ UNCHANGED <<detVars, lineVars, guiVars, auxVars>>

NextExtract == ExtractPoints

\* The point extraction, one call at a time.
SpecExtract == Init /\ [][NextExtract]_vars

NextConfidence == LineConfidence \/ ExtractAndScore

\* The line confidence, one call at a time.
SpecConfidence == Init /\ [][NextConfidence]_vars

NextRetention == DetectCrossoversRetention

\* The crossover detector on a run of several hours.
SpecRetention == Init /\ [][NextRetention]_vars

NextHistory == HistoryFill \/ HistoryPass

\* The crossover detector on a long run, up to and past max_history
\* accepted crossovers.
SpecHistory == Init /\ [][NextHistory]_vars

-----------------------------------------------------------------------------
(* Vocabulary of the properties *)

Range(seq) == {seq[k] : k \in DOMAIN seq}

\* Every Crossover the detector holds or has just returned.
Stored == Range(crossover_history) \cup Range(recent_crossovers) \cup Range(returned)

Accepted(i) == verdicts[i].verdict = "accepted"
Dropped(i) == verdicts[i].verdict = "duplicate"

\* The candidates that reached is_new_crossover.
Presented == {i \in DOMAIN verdicts : Accepted(i) \/ Dropped(i)}

SamePair(a, b) == {a.line1_name, a.line2_name} = {b.line1_name, b.line2_name}

NearBy(a, b) ==
    (a.intersection_point[1] - b.intersection_point[1])
        * (a.intersection_point[1] - b.intersection_point[1])
    + (a.intersection_point[2] - b.intersection_point[2])
        * (a.intersection_point[2] - b.intersection_point[2])
    < intersection_tolerance * intersection_tolerance

\* The same candidate but for the time it was seen.
Identical(a, b) == [a EXCEPT !.timestamp = 0] = [b EXCEPT !.timestamp = 0]

Elapsed(i, j) == verdicts[j].c.timestamp - verdicts[i].c.timestamp

\* i was presented before j, and they agree in line pair and location.
Matches(i, j) ==
    /\ i < j
    /\ SamePair(verdicts[i].c, verdicts[j].c)
    /\ NearBy(verdicts[i].c, verdicts[j].c)

-----------------------------------------------------------------------------
(* C1 *)

\* C1: two candidates with the same unordered line-name pair, less than
\* tolerance px apart and less than debounce_seconds apart, presented in
\* either order, in one pass or in two: exactly one of them is accepted and
\* the other is dropped.
C1_ExactlyOneAccepted ==
    \A i, j \in Presented :
        Matches(i, j) /\ Elapsed(i, j) < debounce_seconds
            => (Accepted(i) /\ Dropped(j)) \/ (Dropped(i) /\ Accepted(j))

\* C1 (amended): of two such candidates at most one is accepted: when the
\* one presented first is accepted the other is dropped, and the first is
\* dropped only as the duplicate of a crossover accepted before it (same
\* pair, within tolerance, less than debounce_seconds earlier) - so exactly
\* one of the two is accepted whenever no such earlier crossover exists.
C1_AtMostOneAccepted ==
    \A i, j \in Presented :
        Matches(i, j) /\ Elapsed(i, j) < debounce_seconds
            => /\ Accepted(i) => Dropped(j)
               /\ Dropped(i) =>
                      \E k \in Presented :
                          Accepted(k) /\ Matches(k, i) /\ Elapsed(k, i) < debounce_seconds

\* C1 witness: a pair of matching candidates of two different passes, their
\* line names in opposite order, the first accepted and the second dropped.
C1_Witness ==
    \E i, j \in Presented :
        /\ Matches(i, j) /\ Elapsed(i, j) < debounce_seconds /\ Elapsed(i, j) > 0
        /\ verdicts[i].c.line1_name = verdicts[j].c.line2_name
        /\ Accepted(i) /\ Dropped(j)

-----------------------------------------------------------------------------
(* C2 *)

\* C2: a candidate that matches a previously accepted crossover in line pair
\* and location is accepted again as soon as more than debounce_seconds have
\* elapsed since that acceptance, and two otherwise identical candidates more
\* than debounce_seconds apart are both accepted.
C2_ReleasedAfterDebounce ==
    \A i, j \in Presented :
        /\ Accepted(i) /\ Matches(i, j) /\ Elapsed(i, j) > debounce_seconds
              => Accepted(j)
        /\ i < j /\ Identical(verdicts[i].c, verdicts[j].c)
                 /\ Elapsed(i, j) > debounce_seconds
              => Accepted(i) /\ Accepted(j)

\* C2 (amended): a candidate is accepted as soon as debounce_seconds or more
\* have elapsed since every acceptance it matches in line pair and location
\* (the window runs from the latest matching acceptance); matching
\* candidates that were dropped in between neither restart nor extend it.
C2_ReleasedAfterLastAcceptance ==
    \A j \in Presented :
        (\A i \in Presented :
            Accepted(i) /\ Matches(i, j) => Elapsed(i, j) >= debounce_seconds)
        => Accepted(j)

\* C2 witness: a crossover accepted, an identical candidate dropped inside
\* the window, and an identical one accepted more than debounce_seconds after
\* the first although less than debounce_seconds after the dropped one.
C2_Witness ==
    \E i, k, j \in Presented :
        /\ i < k /\ k < j
        /\ Identical(verdicts[i].c, verdicts[k].c)
        /\ Identical(verdicts[i].c, verdicts[j].c)
        /\ Accepted(i) /\ Dropped(k) /\ Accepted(j)
        /\ Elapsed(i, j) > debounce_seconds
        /\ Elapsed(k, j) < debounce_seconds

-----------------------------------------------------------------------------
(* C3 *)

\* The last two calls got the same detected lines, less than debounce_seconds
\* apart, under the same configuration.
SameFrameTwice ==
    /\ passes >= 2
    /\ lastCall.lines = prevCall.lines
    /\ lastCall.malformed = prevCall.malformed
    /\ lastCall.min_confidence = prevCall.min_confidence
    /\ lastCall.time - prevCall.time < debounce_seconds

FirstRunUnhindered ==
    \A i \in Presented, k \in DOMAIN prevCall.recent_before :
        verdicts[i].c.timestamp = prevCall.time
            => ~(SamePair(prevCall.recent_before[k], verdicts[i].c)
                 /\ NearBy(prevCall.recent_before[k], verdicts[i].c))

-----------------------------------------------------------------------------
(* C4, C5, C6 *)

\* C4: no crossover returned by detect_crossovers or stored in
\* recent_crossovers or crossover_history has an angle below 10 degrees.
C4_NoShallowAngleAccepted ==
    \A c \in Stored : c.angle >= ShallowAngle

\* C5: no crossover is accepted when one of its two lines has a confidence
\* below 0.5, whatever the configured confidence_threshold.
C5_NoLowLineConfidenceAccepted ==
    \A c \in Stored : /\ c.line1_confidence >= min_line_confidence
                       /\ c.line2_confidence >= min_line_confidence

\* The confidence_threshold values read by the pass that ran at time t.
ThresholdRead(t) ==
    {verdicts[i].min_confidence : i \in {k \in DOMAIN verdicts : verdicts[k].c.timestamp = t}}

\* C6: a crossover is accepted only if its blended confidence is at least
\* the confidence_threshold read for its pass; a candidate below it is never
\* returned and never added to recent_crossovers or crossover_history.
C6_AcceptedMeetThreshold ==
    /\ \A c \in Stored :
          /\ ThresholdRead(c.timestamp) # {}
          /\ \A t \in ThresholdRead(c.timestamp) : 100 * c.confidence >= t * BlendScale
    /\ \A i \in DOMAIN verdicts :
          100 * verdicts[i].c.confidence < verdicts[i].min_confidence * BlendScale
              => verdicts[i].c \notin Stored /\ ~Accepted(i)

\* C6 witness: a candidate of blended confidence below 0.9 is rejected
\* while the threshold is 0.9 and accepted once the threshold is back at 0.7.
C6_Witness ==
    \E i, j \in DOMAIN verdicts :
        /\ i < j
        /\ Identical(verdicts[i].c, verdicts[j].c)
        /\ verdicts[i].verdict = "low_confidence"
        /\ Accepted(j)
        /\ verdicts[j].c \in Range(crossover_history)
        /\ verdicts[i].min_confidence > verdicts[j].min_confidence


-----------------------------------------------------------------------------
(* C7: the crossover history *)

\* The crossovers accepted so far, oldest first.
AcceptedSoFar ==
    LET acc == SelectSeq(verdicts, LAMBDA v : v.verdict = "accepted")
    IN  [k \in DOMAIN acc |-> acc[k].c]

\* C7: after every completed detection pass the crossover history holds at
\* most 1000 entries, and they are the most recently accepted crossovers in
\* the order of their acceptance: once more than 1000 have been accepted the
\* oldest ones are gone and exactly the last 1000 remain.
C7_HistoryIsLastThousandAccepted ==
    \A acc \in {AcceptedSoFar} :
        LET n == Len(acc)
            k == IF n > 1000 THEN n - 1000 ELSE 0
        IN  /\ Len(crossover_history) <= 1000
            /\ Len(crossover_history) = n - k
            /\ crossover_history = SubSeq(acc, k + 1, n)

\* 1001 crossovers have been accepted one after the other; the first is gone
\* and the history starts with the second.
C7_Witness ==
    \E acc \in {AcceptedSoFar} :
        /\ Len(acc) = 1001
        /\ Len(crossover_history) = 1000
        /\ crossover_history[1] = acc[2]
        /\ crossover_history[1] # acc[1]
        /\ crossover_history[1000] = acc[1001]

-----------------------------------------------------------------------------
(* C8, C9: the lines of one frame *)

\* What the extraction yields for a band of the image of the last call.
ExtractedPoints(b) ==
    extract_line_points(create_color_mask(captured_image[b]), min_line_length)

\* The bands the last call found enabled and with a non-empty extraction.
BandsWithPoints ==
    SelectSeq(Bands, LAMBDA b : bandLog.enabled[b] /\ ExtractedPoints(b) # << >>)

\* C8: the list a detect_lines call returns holds, in the order of the
\* configured bands, one line for each band that was enabled and whose
\* extraction yielded points, with the band's name, those points and their
\* confidence, and no line for any other band.
C8_OneLinePerEnabledBandWithPoints ==
    frames > 0 =>
        /\ Len(detected_lines) = Len(BandsWithPoints)
        /\ \A k \in DOMAIN detected_lines :
              LET b == BandsWithPoints[k]
              IN  detected_lines[k] =
                      Line(ExtractedPoints(b), b,
                           calculate_line_confidence(ExtractedPoints(b),
                                                     create_color_mask(captured_image[b])))

\* C9: an error while one band is processed does not keep the other enabled
\* bands of the frame from being processed: each of them is still examined,
\* and each of them that has points still has its line in the result.
C9_BandFailureIsIsolated ==
    (frames > 0 /\ \E f \in DOMAIN bandLog.outcome : bandLog.outcome[f] = "error") =>
        \A b \in DOMAIN bandLog.outcome :
            (bandLog.enabled[b] /\ bandLog.outcome[b] # "error") =>
                /\ bandLog.outcome[b] # "unprocessed"
                /\ ExtractedPoints(b) # << >> =>
                      \E k \in DOMAIN detected_lines : detected_lines[k].color_name = b

-----------------------------------------------------------------------------
(* C10: errors inside the detectors *)

\* The entries of the list that are younger than the retention time at time t.
YoungAt(list, t) == {c \in Range(list) : t - c.timestamp < 3600}

\* C10: neither detect_lines nor detect_crossovers lets an exception reach
\* its caller; each returns a list.  A detect_crossovers pass that was
\* interrupted by an internal error has still done its housekeeping: the
\* recent list holds exactly its entries younger than the retention time, the
\* history is within its bound, and last_detection_time is the time of the
\* pass.
C10_NoErrorIsFatal ==
    /\ ~raised
    /\ ~lines_raised
    /\ DOMAIN returned = 1..Len(returned)
    /\ DOMAIN detected_lines = 1..Len(detected_lines)
    /\ (passes > 0 /\ lastCall.error) =>
          /\ last_detection_time = lastCall.time
          /\ Range(recent_crossovers) = YoungAt(lastCall.recent_before, lastCall.time)
          /\ Len(crossover_history) <= 1000

\* A pass was interrupted by the malformed argument more than the retention
\* time after a crossover had been accepted: the old entry is gone and the
\* time is that of the pass; and a detect_lines call has hit an error too.
C10_Witness ==
    /\ passes > 0
    /\ lastCall.error
    /\ lastCall.recent_before # << >>
    /\ recent_crossovers = << >>
    /\ last_detection_time = lastCall.time
    /\ ~raised
    /\ frames > 0
    /\ \E b \in DOMAIN bandLog.outcome : bandLog.outcome[b] = "error"
    /\ ~lines_raised

-----------------------------------------------------------------------------
(* C11: the pairs of lines a pass compares *)

\* How often the pair of lines i, j was given to find_line_intersections in
\* the last pass.
TimesTested(i, j) ==
    Cardinality({k \in DOMAIN lastCall.tested :
                    lastCall.tested[k] = <<i, j>> \/ lastCall.tested[k] = <<j, i>>})

\* C11: a pass runs the intersection test exactly once on every unordered
\* pair of detected lines with different colour names and never on two lines
\* with the same colour name; every accepted crossover names two different
\* lines.
C11_PairsOfDifferentColours ==
    /\ \A i \in DOMAIN lastCall.lines : \A j \in DOMAIN lastCall.lines :
          i < j =>
             TimesTested(i, j) =
                IF lastCall.lines[i].color_name # lastCall.lines[j].color_name
                THEN 1 ELSE 0
    /\ \A k \in DOMAIN lastCall.tested :
          /\ lastCall.tested[k][1] \in DOMAIN lastCall.lines
          /\ lastCall.tested[k][2] \in DOMAIN lastCall.lines
          /\ lastCall.tested[k][1] # lastCall.tested[k][2]
    /\ \A i \in DOMAIN verdicts :
          verdicts[i].verdict = "accepted" => verdicts[i].c.line1_name # verdicts[i].c.line2_name
    /\ \A c \in Stored : c.line1_name # c.line2_name

\* A pass on three lines of which two have the same colour name and cross
\* each other: two pairs were tested and a crossover was returned.
C11_Witness ==
    /\ Len(lastCall.lines) = 3
    /\ Len(lastCall.tested) = 2
    /\ returned # << >>
    /\ \E i \in 1..3 : \E j \in 1..3 :
          /\ i < j
          /\ lastCall.lines[i].color_name = lastCall.lines[j].color_name
          /\ find_line_intersections(lastCall.lines[i], lastCall.lines[j]) # << >>

-----------------------------------------------------------------------------
(* C12, C13: the intersection of two segments *)

\* (b - a) x (c - a): its sign tells on which side of the line a-b c lies.
Orient(a, b, c) == (b[1] - a[1]) * (c[2] - a[2]) - (b[2] - a[2]) * (c[1] - a[1])

\* The cross product of the direction vectors of a-b and c-e.
Cross(a, b, c, e) == (b[1] - a[1]) * (e[2] - c[2]) - (b[2] - a[2]) * (e[1] - c[1])

\* The segments a-b and c-e, not parallel, have a point in common: the end
\* points of each are not strictly on the same side of the other.
Meet(a, b, c, e) ==
    /\ Orient(a, b, c) * Orient(a, b, e) <= 0
    /\ Orient(c, e, a) * Orient(c, e, b) <= 0

Between(u, v, w) == (u <= w /\ w <= v) \/ (v <= w /\ w <= u)

\* The point (xn/d, yn/d), d > 0, lies on the segment a-b.
OnSegment(xn, yn, d, a, b) ==
    /\ (b[1] - a[1]) * (yn - d * a[2]) = (b[2] - a[2]) * (xn - d * a[1])
    /\ Between(d * a[1], d * b[1], xn)
    /\ Between(d * a[2], d * b[2], yn)

\* C12: line_segment_intersection returns a point iff the segments are not
\* parallel and have a point in common (an end point of one lying on the
\* other counts, a crossing of the extensions does not); the point returned
\* lies on both segments, and no other grid point does.  The diagonals
\* (0,0)-(10,10) and (0,10)-(10,0) give exactly one candidate, at (5,5) with
\* angle 90.
C12_SegmentIntersectionCorrect ==
    call.op = "segments" =>
        /\ result.point.hit <=>
              (Cross(call.p1, call.p2, call.p3, call.p4) # 0
               /\ Meet(call.p1, call.p2, call.p3, call.p4))
        /\ result.point.hit =>
              /\ result.point.d > 0
              /\ OnSegment(result.point.xn, result.point.yn, result.point.d, call.p1, call.p2)
              /\ OnSegment(result.point.xn, result.point.yn, result.point.d, call.p3, call.p4)
              /\ \A g \in GridPoints :
                    (OnSegment(g[1], g[2], 1, call.p1, call.p2)
                     /\ OnSegment(g[1], g[2], 1, call.p3, call.p4)) =>
                        (result.point.xn = g[1] * result.point.d
                         /\ result.point.yn = g[2] * result.point.d)
        /\ (call.p1 = <<0, 0>> /\ call.p2 = <<10, 10>>
            /\ call.p3 = <<0, 10>> /\ call.p4 = <<10, 0>>) =>
              /\ Len(result.candidates) = 1
              /\ result.candidates[1].point = <<5, 5>>
              /\ result.candidates[1].angle = 90

\* The two diagonals have been intersected.
C12_Witness ==
    /\ call.op = "segments"
    /\ call.p1 = <<0, 0>> /\ call.p2 = <<10, 10>>
    /\ call.p3 = <<0, 10>> /\ call.p4 = <<10, 0>>
    /\ result.point.hit
    /\ result.point.xn = 5 * result.point.d
    /\ result.point.yn = 5 * result.point.d
    /\ Len(result.candidates) = 1

\* Two segments that meet only in a common end point give a point as well.
C12_WitnessEndPoint ==
    /\ call.op = "segments"
    /\ call.p2 = call.p3
    /\ result.point.hit
    /\ Orient(call.p1, call.p2, call.p4) # 0

\* No two segments of the polylines cross, not even when extended: every
\* segment of one is parallel to every segment of the other.
AllParallel(line1, line2) ==
    \A i \in 1..(Len(line1.points) - 1) : \A j \in 1..(Len(line2.points) - 1) :
        Cross(line1.points[i], line1.points[i + 1],
              line2.points[j], line2.points[j + 1]) = 0

\* C13: when the cross product of the direction vectors is zero (parallel
\* segments, segments on one line that overlap, a segment of length zero)
\* line_segment_intersection returns no point and find_line_intersections
\* has no candidate for the pair; two parallel polylines give the empty list.
C13_ParallelNeverIntersect ==
    /\ (call.op = "segments" /\ Cross(call.p1, call.p2, call.p3, call.p4) = 0) =>
          /\ ~result.point.hit
          /\ result.candidates = << >>
    /\ (call.op = "lines" /\ AllParallel(call.line1, call.line2)) =>
          result.candidates = << >>

\* Two segments of positive length on one line that have more than one
\* point in common were given, and no point came back.
C13_Witness ==
    /\ call.op = "segments"
    /\ call.p1 # call.p2
    /\ call.p3 # call.p4
    /\ Cross(call.p1, call.p2, call.p3, call.p4) = 0
    /\ Orient(call.p1, call.p2, call.p3) = 0
    /\ OnSegment(call.p3[1], call.p3[2], 1, call.p1, call.p2)
    /\ OnSegment(call.p2[1], call.p2[2], 1, call.p3, call.p4)
    /\ call.p3 # call.p2
    /\ ~result.point.hit
    /\ result.candidates = << >>

-----------------------------------------------------------------------------
(* C14: the order of the crossovers of one pass *)

\* The truncated intersection point of segment s1 of line1 and segment s2 of
\* line2, or << >> when they do not intersect.
PixelOf(line1, line2, s1, s2) ==
    LET hit == line_segment_intersection(line1.points[s1], line1.points[s1 + 1],
                                         line2.points[s2], line2.points[s2 + 1])
    IN  IF hit.hit THEN <<IntTrunc(hit.xn, hit.d), IntTrunc(hit.yn, hit.d)>> ELSE << >>

\* The places <<i, j, s1, s2>> in the enumeration of the last pass (lines i < j,
\* segment s1 of line i, segment s2 of line j) that yield the crossover c.
KeysOf(c) ==
    {key \in (DOMAIN lastCall.lines) \X (DOMAIN lastCall.lines) \X (1..3) \X (1..3) :
        /\ key[1] < key[2]
        /\ lastCall.lines[key[1]].color_name = c.line1_name
        /\ lastCall.lines[key[2]].color_name = c.line2_name
        /\ key[3] < Len(lastCall.lines[key[1]].points)
        /\ key[4] < Len(lastCall.lines[key[2]].points)
        /\ PixelOf(lastCall.lines[key[1]], lastCall.lines[key[2]], key[3], key[4])
              = c.intersection_point}

\* Lexicographic order of the places.
Earlier(a, b) ==
    \E n \in 1..4 : a[n] < b[n] /\ \A m \in 1..(n - 1) : a[m] = b[m]

\* C14: the crossovers a pass returns are in the order of the enumeration:
\* line pairs in input order, then the segments of the first line, then the
\* segments of the second; and they are appended to crossover_history in
\* that order.
C14_ReturnedInEnumerationOrder ==
    /\ \A k \in DOMAIN returned : Cardinality(KeysOf(returned[k])) = 1
    /\ \A k \in DOMAIN returned : \A m \in DOMAIN returned :
          k < m => \E a \in KeysOf(returned[k]) : \E b \in KeysOf(returned[m]) : Earlier(a, b)
    /\ crossover_history = lastCall.history_before \o returned

\* A pass has returned two crossovers of two different line pairs, after an
\* earlier pass that had returned two crossovers of different segments of
\* one line pair.
C14_Witness ==
    /\ Len(returned) = 2
    /\ \E a \in KeysOf(returned[1]) : \E b \in KeysOf(returned[2]) :
          <<a[1], a[2]>> # <<b[1], b[2]>>
    /\ Len(lastCall.history_before) = 2
    /\ Len(prevCall.lines) = 2
    /\ Len(crossover_history) = 4

-----------------------------------------------------------------------------
(* C15: a uniqueness check that fails *)

\* The candidates of the last pass.
LastPass == {i \in DOMAIN verdicts : verdicts[i].c.timestamp = lastCall.time}

\* C15: a candidate whose uniqueness check failed internally is allowed: it
\* is accepted, returned by the pass and appended to crossover_history.  The
\* failure is no error state: the pass is not interrupted and nothing is
\* raised.
C15_FailedCheckAllows ==
    /\ \A i \in DOMAIN verdicts :
          verdicts[i].failed =>
              /\ verdicts[i].verdict = "accepted"
              /\ verdicts[i].c \in Range(crossover_history)
    /\ \A i \in LastPass : verdicts[i].failed => verdicts[i].c \in Range(returned)
    /\ (\E i \in LastPass : verdicts[i].failed) =>
          /\ ~raised
          /\ ~lastCall.error

\* With a tolerance that is no number and a crossover in the recent list, a
\* pass has met two candidates; the check failed for both and both were
\* returned.
C15_Witness ==
    /\ tolerance_config = BadTolerance
    /\ lastCall.recent_before # << >>
    /\ Len(returned) = 2
    /\ \A i \in LastPass : verdicts[i].failed /\ verdicts[i].c \in Range(returned)
    /\ Cardinality(LastPass) = 2

-----------------------------------------------------------------------------
(* C16: one worker at a time *)

\* The workers whose thread has been started and has not finished.
Alive == {w \in DOMAIN workers : workers[w].thread # "finished"}

\* The workers that are inside an iteration of the detection loop.
InPass == {w \in DOMAIN workers : workers[w].thread = "pass"}

\* C16: whatever the user does and however the threads are scheduled, at
\* most one DetectionWorker is running at a time, so no two detection passes
\* run at the same time on the CrossoverDetector they share.
C16_OneWorkerAtATime ==
    /\ Cardinality(Alive) <= 1
    /\ Cardinality(InPass) <= 1

\* A second worker has been started after the first had finished; it was
\* told to stop, the wait for it has timed out, and it is still inside a pass.
C16_Witness ==
    /\ Len(workers) = 2
    /\ workers[1].thread = "finished"
    /\ detection_worker = 2
    /\ workers[2].thread = "pass"
    /\ ~workers[2].running
    /\ gui = "idle"

-----------------------------------------------------------------------------
(* C17: the confidence of a line with fewer than two points *)

\* C17: calculate_line_confidence returns exactly 0 for a point list with
\* fewer than two points, whatever the mask; in particular for the empty
\* list that extract_line_points returns for a mask without set pixels.
C17_FewPointsNoConfidence ==
    /\ (call.op = "confidence" /\ Len(call.points) < 2) => result.confidence = 0
    /\ (call.op = "extract" /\ call.mask.contour = << >>) =>
          /\ result.points = << >>
          /\ result.confidence = 0
    /\ (call.op = "extract" /\ Len(result.points) < 2) => result.confidence = 0

\* A single point was scored against a mask that is set all along the line.
C17_Witness ==
    /\ call.op = "confidence"
    /\ Len(call.points) = 1
    /\ call.mask.density = 100
    /\ call.mask.contour # << >>
    /\ result.confidence = 0

-----------------------------------------------------------------------------
(* C18: what a duplicate is *)

\* The square of the distance between the intersection points.
Dist2(a, b) ==
    (a.intersection_point[1] - b.intersection_point[1])
        * (a.intersection_point[1] - b.intersection_point[1])
    + (a.intersection_point[2] - b.intersection_point[2])
        * (a.intersection_point[2] - b.intersection_point[2])

\* The crossover accepted as i is in the recent list when j is checked, less
\* than 8 px from it, less than 60 s before it, with the same two line names
\* in either order.
DuplicateOf(j, i) ==
    /\ i < j
    /\ Accepted(i)
    /\ Dist2(verdicts[i].c, verdicts[j].c) < 8 * 8
    /\ verdicts[j].c.timestamp - verdicts[i].c.timestamp < 60
    /\ \/ /\ verdicts[i].c.line1_name = verdicts[j].c.line1_name
          /\ verdicts[i].c.line2_name = verdicts[j].c.line2_name
       \/ /\ verdicts[i].c.line1_name = verdicts[j].c.line2_name
          /\ verdicts[i].c.line2_name = verdicts[j].c.line1_name

-----------------------------------------------------------------------------
(* C19, C20: what a pass leaves in the two collections *)

\* How often the crossover c occurs in the list.
Occurrences(c, list) == Cardinality({k \in DOMAIN list : list[k] = c})

\* C19: after a pass every crossover it returned is exactly once in
\* recent_crossovers and exactly once in crossover_history, and every
\* candidate the pass accepted is among the crossovers it returned.
C19_AcceptedIsInBothCollections ==
    /\ \A k \in DOMAIN returned :
          /\ Occurrences(returned[k], recent_crossovers) = 1
          /\ Occurrences(returned[k], crossover_history) = 1
    /\ \A i \in LastPass : Accepted(i) => Occurrences(verdicts[i].c, returned) = 1

\* The crossovers a pass accepted, in the order of their acceptance.
AcceptedInLastPass ==
    LET acc == SelectSeq(verdicts, LAMBDA v : v.verdict = "accepted"
                                              /\ v.c.timestamp = lastCall.time)
    IN  [k \in DOMAIN acc |-> acc[k].c]

\* C20: a candidate that is dropped, because it is below the threshold or a
\* duplicate, changes neither recent_crossovers nor crossover_history: after
\* a pass the two lists are what they were before it, followed by the
\* crossovers the pass accepted, so that a pass that accepted nothing leaves
\* them as they were.
C20_RejectedChangesNothing ==
    passes > 0 =>
        /\ recent_crossovers = lastCall.recent_before \o AcceptedInLastPass
        /\ crossover_history = lastCall.history_before \o AcceptedInLastPass
        /\ \A i \in LastPass :
              ~Accepted(i) => /\ verdicts[i].c \notin Range(recent_crossovers)
                              /\ verdicts[i].c \notin Range(crossover_history)

\* Two crossovers are in the lists; a pass has dropped a candidate below the
\* threshold, after a pass that had dropped a duplicate, and the lists are
\* as they were before the two passes.
C20_Witness ==
    /\ passes > 1
    /\ lastCall.recent_before # << >>
    /\ \E i \in LastPass : verdicts[i].verdict = "low_confidence"
    /\ \A i \in LastPass : ~Accepted(i)
    /\ \E i \in DOMAIN verdicts :
          verdicts[i].c.timestamp = prevCall.time /\ Dropped(i)
    /\ \A i \in DOMAIN verdicts :
          verdicts[i].c.timestamp = prevCall.time => ~Accepted(i)
    /\ recent_crossovers = prevCall.recent_before
    /\ crossover_history = prevCall.history_before

-----------------------------------------------------------------------------
(* C21: housekeeping of the recent list *)

\* The recent list as the try block of the last pass left it: what it was
\* before the pass, followed by the crossovers the pass accepted.
RecentBeforeCleanup == lastCall.recent_before \o AcceptedInLastPass

\* C21: every detect_crossovers call ends with one housekeeping step, also
\* when the pass found nothing or failed internally: after the call
\* recent_crossovers is the list the pass left, without the entries whose
\* age is one hour or more and with all younger entries in their order.
C21_HousekeepingEveryPass ==
    passes > 0 =>
        /\ recent_crossovers =
               SelectSeq(RecentBeforeCleanup, LAMBDA c : now - c.timestamp < 3600)
        /\ \A k \in DOMAIN recent_crossovers : now - recent_crossovers[k].timestamp < 3600
        /\ \A c \in Range(RecentBeforeCleanup) :
              now - c.timestamp < 3600 => c \in Range(recent_crossovers)
        /\ last_detection_time = lastCall.time

\* A pass that failed internally found three crossovers in the recent list,
\* the first one hour old and the others half an hour: the first is gone,
\* the others are left in their order.
C21_Witness ==
    /\ passes > 0
    /\ lastCall.error
    /\ Len(lastCall.recent_before) = 3
    /\ now - lastCall.recent_before[1].timestamp = 3600
    /\ now - lastCall.recent_before[2].timestamp = 1800
    /\ recent_crossovers = SubSeq(lastCall.recent_before, 2, 3)

\* A pass that found nothing has removed the only entry, one hour old.
C21_WitnessNothingFound ==
    /\ passes > 0
    /\ lastCall.lines = << >>
    /\ Len(lastCall.recent_before) = 1
    /\ recent_crossovers = << >>

-----------------------------------------------------------------------------
(* C22: the candidates of a pair of lines *)

\* The segment pairs <<i, j>> of the two lines whose segments are not
\* parallel and have a point in common.
MeetingSegments(line1, line2) ==
    {ij \in (1..(Len(line1.points) - 1)) \X (1..(Len(line2.points) - 1)) :
        /\ Cross(line1.points[ij[1]], line1.points[ij[1] + 1],
                 line2.points[ij[2]], line2.points[ij[2] + 1]) # 0
        /\ Meet(line1.points[ij[1]], line1.points[ij[1] + 1],
                line2.points[ij[2]], line2.points[ij[2] + 1])}

\* The segment pairs the candidates name.
CandidateSegments(candidates) ==
    {<<candidates[k].line1_segment, candidates[k].line2_segment>> : k \in DOMAIN candidates}

\* C22: find_line_intersections returns one candidate for every pair of a
\* segment of line1 and a segment of line2 that intersect, and no other:
\* there are as many candidates as intersecting segment pairs.  Nothing is
\* filtered: an intersection at pixel (0,0) and one at an angle below 10
\* degrees are candidates like any other.
C22_OneCandidatePerIntersection ==
    /\ call.op = "lines" =>
          /\ CandidateSegments(result.candidates) = MeetingSegments(call.line1, call.line2)
          /\ Len(result.candidates) = Cardinality(MeetingSegments(call.line1, call.line2))
    /\ call.op = "segments" =>
          /\ Len(result.candidates) = IF result.point.hit THEN 1 ELSE 0
          /\ result.point.hit =>
                result.candidates[1].point =
                    <<IntTrunc(result.point.xn, result.point.d),
                      IntTrunc(result.point.yn, result.point.d)>>

\* Two segments that meet at the origin only gave one candidate, at (0,0).
C22_Witness ==
    /\ call.op = "segments"
    /\ call.p1 = <<0, 0>> /\ call.p3 = <<0, 0>>
    /\ Len(result.candidates) = 1
    /\ result.candidates[1].point = <<0, 0>>

\* A line and a polyline of three segments gave two candidates.
C22_WitnessMany ==
    /\ call.op = "lines"
    /\ Len(result.candidates) = 2
    /\ Len(call.line2.points) > 2

\* Two lines that cross at less than 10 degrees gave one candidate.
C22_WitnessShallow ==
    /\ call.op = "lines"
    /\ Len(result.candidates) = 1
    /\ result.candidates[1].angle < 10
    /\ result.candidates[1].angle >= 0

-----------------------------------------------------------------------------
(* C23: the points of a line *)

\* C23: the list extract_line_points returns is non-decreasing in x, and
\* every two consecutive points of it are more than 5 px apart; its points
\* are points of the contour, the leftmost one among them.
C23_PointsSortedAndApart ==
    call.op = "points" =>
        /\ \A k \in 1..(Len(result.points) - 1) :
              /\ result.points[k][1] <= result.points[k + 1][1]
              /\ (result.points[k + 1][1] - result.points[k][1])
                     * (result.points[k + 1][1] - result.points[k][1])
                 + (result.points[k + 1][2] - result.points[k][2])
                     * (result.points[k + 1][2] - result.points[k][2]) > 5 * 5
        /\ Range(result.points) \subseteq Range(call.mask.contour)
        /\ call.mask.area >= 30 =>
              /\ result.points # << >>
              /\ \A q \in Range(call.mask.contour) : result.points[1][1] <= q[1]

\* A contour of three points, not in the order of x, one of them exactly
\* 5 px from its neighbour: two points are left.
C23_Witness ==
    /\ call.op = "points"
    /\ Len(call.mask.contour) = 3
    /\ call.mask.contour[1][1] > call.mask.contour[2][1]
    /\ \E a \in Range(call.mask.contour) : \E b \in Range(call.mask.contour) :
          (a[1] - b[1]) * (a[1] - b[1]) + (a[2] - b[2]) * (a[2] - b[2]) = 25
    /\ Len(result.points) = 2
    /\ result.points[1][1] < result.points[2][1]

-----------------------------------------------------------------------------
(* C24: the angle of a segment of length zero *)

\* C24: calculate_intersection_angle on a segment whose two end points
\* coincide yields the angle 0, and what follows from it is a rejection.
C24_ZeroLengthGivesAngleZero ==
    (call.op = "angle" /\ (call.p1 = call.p2 \/ call.p3 = call.p4)) =>
        /\ result.angle = 0
        /\ ~result.passes_threshold

\* What holds of such a call: the angle is not a number, and so is the
\* confidence, which no threshold test lets pass.
C24_ZeroLengthIsRejected ==
    (call.op = "angle" /\ (call.p1 = call.p2 \/ call.p3 = call.p4)) =>
        /\ result.angle = NaN
        /\ result.confidence = NaN
        /\ ~result.passes_threshold

-----------------------------------------------------------------------------
(* C25: stopping the worker *)

\* The w-th worker, or a worker that was never started when there is none.
WorkerAt(w) ==
    IF w \in DOMAIN workers THEN workers[w]
    ELSE [running |-> FALSE, paused |-> FALSE, loop_count |-> 0, thread |-> "none",
          stopped_at |-> "never", observed_paused |-> FALSE]

\* C25: once stop() has been called on a worker, no iteration of its
\* detection loop begins any more, whenever the call came: before run() had
\* begun, at the head of the loop or inside an iteration.
C25_NoIterationAfterStop ==
    [][\A w \in DOMAIN workers :
          (workers[w].stopped_at # "never" /\ workers[w].thread # "iter")
              => workers'[w].thread # "iter"]_vars

\* What holds: no iteration begins after a stop() that was called once
\* run() had begun, and the loop of such a worker ends.
C25_NoIterationAfterStopInLoop ==
    /\ [][\A w \in DOMAIN workers :
             (workers[w].stopped_at \in {"loop", "iter", "pass"}
              /\ workers[w].thread # "iter")
                 => workers'[w].thread # "iter"]_vars
    /\ \A w \in 1..MaxWorkers :
          (WorkerAt(w).stopped_at \in {"loop", "iter", "pass"})
              ~> (WorkerAt(w).thread = "finished")

-----------------------------------------------------------------------------
(* C26: pausing the worker *)

\* The worker is in its loop.
InLoop(w) == workers[w].thread \in {"loop", "iter", "pass"}

\* C26: an iteration that reads paused = True goes on to no pass.  From
\* then on and until resume() is called the worker begins no pass, so that
\* no detection runs and the lists of the crossover detector stay as they
\* are.  A worker that is not paused (any more), is not stopped and has
\* iterations left begins a pass.  A paused loop on which stop() is called
\* ends.
C26_PausedWorkerDoesNothing ==
    /\ [][\A w \in DOMAIN workers :
             (workers[w].thread = "iter" /\ workers[w].paused)
                 => workers'[w].thread # "pass"]_vars
    /\ [][\A w \in DOMAIN workers :
             (InLoop(w) /\ workers[w].observed_paused /\ workers'[w].observed_paused)
                 => /\ workers'[w].thread # "pass"
                    /\ workers'[w].loop_count = workers[w].loop_count
                    /\ UNCHANGED <<recent_crossovers, crossover_history, passes,
                                   last_detection_time, verdicts>>]_vars
    /\ \A w \in 1..MaxWorkers :
          (WorkerAt(w).thread \in {"loop", "iter"}
           /\ WorkerAt(w).running /\ ~WorkerAt(w).paused
           /\ WorkerAt(w).loop_count < MaxLoops)
              ~> (WorkerAt(w).thread = "pass" \/ WorkerAt(w).paused \/ ~WorkerAt(w).running)
    /\ \A w \in 1..MaxWorkers :
          (WorkerAt(w).observed_paused
           /\ WorkerAt(w).stopped_at \in {"loop", "iter"} /\ ~WorkerAt(w).running)
              ~> (WorkerAt(w).thread = "finished")

\* A worker that has run a detection pass was paused, its loop has read the
\* flag, and it is back at the head of the loop.
C26_Witness ==
    \E w \in DOMAIN workers :
        /\ workers[w].thread = "loop"
        /\ workers[w].running
        /\ workers[w].paused
        /\ workers[w].observed_paused
        /\ workers[w].loop_count = 1
        /\ passes = 1
        /\ recent_crossovers # << >>

-----------------------------------------------------------------------------
(* C27: the alert cooldown *)

\* C27: once send_crossover_alert has returned True, every further call
\* made less than cooldown_seconds later returns False: at most one alert
\* is accepted for sending in any window of cooldown_seconds.
C27_OneAlertPerCooldown ==
    \A i \in DOMAIN alert_calls : \A j \in DOMAIN alert_calls :
        (i < j /\ alert_calls[i].result
         /\ alert_calls[j].time - alert_calls[i].time < 300)
            => ~alert_calls[j].result

\* What holds: a call is refused iff less than cooldown_seconds have passed
\* since the worker thread last sent a message successfully.
C27_CooldownFromLastDelivery ==
    \A k \in DOMAIN alert_calls :
        alert_calls[k].result <=> alert_calls[k].time - alert_calls[k].last_sent >= 300

-----------------------------------------------------------------------------
(* C28: the alert queue *)

\* The alert has been sent or recorded as failed.
Handled(a) == a \in Range(delivered) \cup Range(failed_alerts)

\* How often the alert was handled.
TimesHandled(a) ==
    Cardinality({k \in DOMAIN delivered : delivered[k] = a})
        + Cardinality({k \in DOMAIN failed_alerts : failed_alerts[k] = a})

\* The alert worker threads that have not finished.
AliveAlertThreads == {t \in DOMAIN alert_threads : alert_threads[t].pos # "finished"}

\* C28: every alert put on alert_queue is taken off it by a worker thread
\* in the end and handled exactly once, sent or recorded in failed_alerts,
\* whatever the order of the send_crossover_alert, start_worker and
\* stop_worker calls; at most one worker thread is alive at any time.
C28_EveryAlertHandledOnce ==
    /\ \A a \in 1..MaxAlerts : (a \in Range(alert_queue)) ~> Handled(a)
    /\ [](\A a \in 1..MaxAlerts : TimesHandled(a) <= 1)
    /\ [](Cardinality(AliveAlertThreads) <= 1)

\* What holds: an alert on the queue is handled in the end unless the
\* alerter is stopped; no alert is handled twice; one thread is alive at most.
C28_HandledUnlessStopped ==
    /\ \A a \in 1..MaxAlerts :
          (a \in Range(alert_queue)) ~> (Handled(a) \/ ~alerter_running)
    /\ [](\A a \in 1..MaxAlerts : TimesHandled(a) <= 1)
    /\ [](Cardinality(AliveAlertThreads) <= 1)

\* What DEFAULT_CONFIG said when the module was loaded.
OriginalDefaults == ConfigValues(DefaultTop, DefaultHeap)

AfterReset == config_ops # << >> /\ config_ops[Len(config_ops)] = "reset"

\* C29: after reset_to_defaults every configuration value, nested values
\* included, equals its original default, whatever set, set_color_config,
\* in-place edits of get_color_config results or a merge came before.
C29_ResetRestoresDefaults ==
    AfterReset => ConfigValues(config_top, config_heap) = OriginalDefaults

\* What the shallow copy does restore: the top-level dict, so a section that
\* set() created is gone after the reset.
C29_ResetRestoresTopLevel ==
    AfterReset => config_top = DefaultTop

C29_WitnessResetAfterSet ==
    /\ AfterReset
    /\ \E i \in 1..Len(config_ops) : config_ops[i] = "set_new"

BothSourcesSet == target_window # None /\ custom_region # None

\* C30: WindowCapture never has both target_window and custom_region set,
\* and capture_screen captures the source that was selected last.
C30_SingleCaptureSource ==
    /\ ~BothSourcesSet
    /\ captured.result # "none" /\ selected # "none" => captured.source = selected

\* What holds for set_target_window and set_custom_region: each leaves
\* exactly its own source set.
C30_SettersLeaveOneSource ==
    [][(SetTargetWindow \/ SetCustomRegion) => ~BothSourcesSet']_vars

\* capture_screen returns None when no source is set, when the window is gone
\* and when the region it would capture has a non-positive width or height.
C30_NoSourceGivesNone ==
    /\ captured.source = "none" => captured.result \in {"none", "None"}
    /\ captured.result = "image" => captured.width > 0

C30_WitnessCaptureAfterSelection ==
    /\ selected = "region"
    /\ captured.result = "image"
    /\ captured.source = "region"

=============================================================================
